---- MODULE Spec2Model ----
(***************************************************************************)
(* Chango Editor: the tab manager (src/src/ui/tab_widget.py), the editor   *)
(* widget's file operations and replace_all (src/src/core/editor.py), the  *)
(* main window's file handlers and close event (src/src/ui/main_window.py) *)
(* and the i18n manager (src/src/core/i18n.py).                            *)
(*                                                                         *)
(* Tab indexes are 0-based as in the code; tabs[i+1] is the editor shown   *)
(* in tab i.  Python dicts are sequences of [k, v] entries in insertion    *)
(* order, because open_file scans file_paths.items() in that order.        *)
(***************************************************************************)
EXTENDS Integers, Sequences, FiniteSets, TLC

\* ------------------------------------------------------------------------
\* Bounds and input domains
\* ------------------------------------------------------------------------

\* Largest number of tabs open at once.
MaxTabs ==
  3

\* Largest number of handler runs in one session.
MaxOps ==
  5

\* File paths the user can pick in the dialogs.
Paths ==
  {"a", "b"}

\* Python's None as a file path.
None ==
  "None"

\* editors.get(index) when the key is absent.
NoEditor ==
  0

EditorIds ==
  1..MaxTabs

\* Contents a file can have before the editor starts: plain ASCII, a valid
\* UTF-8 two-byte sequence (which is also a valid GBK pair), a sequence that
\* is invalid UTF-8 but valid GBK, and a byte that neither codec accepts.
InitialBytes ==
  {<<65>>, <<195, 169>>, <<195, 65>>, <<255>>}

\* The plain-text file present when only the tab bookkeeping is explored.
PlainBytes ==
  {<<65>>}

\* Texts the user can type into an editor.
EditTexts ==
  {<<>>, <<65>>}

\* Contents offered by the new-file dialog's templates.
TemplateTexts ==
  {<<65>>}

\* ------------------------------------------------------------------------
\* Python dict
\* ------------------------------------------------------------------------

DictHas(d, k) ==
  \E j \in 1..Len(d) : d[j].k = k

DictGet(d, k, default) ==
  IF DictHas(d, k)
  THEN d[CHOOSE j \in 1..Len(d) : d[j].k = k].v
  ELSE default

DictSet(d, k, v) ==
  IF DictHas(d, k)
  THEN [j \in 1..Len(d) |-> IF d[j].k = k THEN [k |-> k, v |-> v] ELSE d[j]]
  ELSE Append(d, [k |-> k, v |-> v])

DictDel(d, k) ==
  SelectSeq(d, LAMBDA e : e.k # k)

DictKeys(d) ==
  {d[j].k : j \in 1..Len(d)}

DictValues(d) ==
  {d[j].v : j \in 1..Len(d)}

\* ------------------------------------------------------------------------
\* Codecs used by open(file, 'r', encoding=...) and open(file, 'w', ...)
\* ------------------------------------------------------------------------

DecodeError ==
  [ok |-> FALSE, text |-> <<>>]

Decoded(cp, rest) ==
  IF rest.ok THEN [ok |-> TRUE, text |-> <<cp>> \o rest.text] ELSE DecodeError

RECURSIVE Utf8Decode(_)
Utf8Decode(b) ==
  IF b = <<>> THEN [ok |-> TRUE, text |-> <<>>]
  ELSE IF b[1] < 128
    THEN Decoded(b[1], Utf8Decode(Tail(b)))
  ELSE IF b[1] \in 194..223 /\ Len(b) >= 2 /\ b[2] \in 128..191
    THEN Decoded((b[1] - 192) * 64 + (b[2] - 128),
                 Utf8Decode(SubSeq(b, 3, Len(b))))
  ELSE IF /\ b[1] \in 224..239 /\ Len(b) >= 3
          /\ b[2] \in 128..191 /\ b[3] \in 128..191
          /\ (b[1] - 224) * 4096 + (b[2] - 128) * 64 >= 2048
    THEN Decoded((b[1] - 224) * 4096 + (b[2] - 128) * 64 + (b[3] - 128),
                 Utf8Decode(SubSeq(b, 4, Len(b))))
  ELSE DecodeError

\* The GBK two-byte characters that the bytes of InitialBytes can form
\* (lead byte, trail byte) -> Unicode code point.
GbkCodePoint(lead, trail) ==
  CASE lead = 195 /\ trail = 169 -> 33541
    [] lead = 195 /\ trail = 65  -> 32897
    [] lead = 195 /\ trail = 195 -> 22969
    [] lead = 169 /\ trail = 195 -> 9503
    [] lead = 169 /\ trail = 65  -> 12322
    [] lead = 169 /\ trail = 169 -> 9477
    [] OTHER -> 0

RECURSIVE GbkDecode(_)
GbkDecode(b) ==
  IF b = <<>> THEN [ok |-> TRUE, text |-> <<>>]
  ELSE IF b[1] < 128
    THEN Decoded(b[1], GbkDecode(Tail(b)))
  ELSE IF /\ b[1] \in 129..254 /\ Len(b) >= 2
          /\ b[2] \in 64..254 /\ b[2] # 127
          /\ GbkCodePoint(b[1], b[2]) # 0
    THEN Decoded(GbkCodePoint(b[1], b[2]), GbkDecode(SubSeq(b, 3, Len(b))))
  ELSE DecodeError

RECURSIVE Utf8Encode(_)
Utf8Encode(t) ==
  IF t = <<>> THEN <<>>
  ELSE LET cp == t[1] IN
    (IF cp < 128 THEN <<cp>>
     ELSE IF cp < 2048 THEN <<192 + (cp \div 64), 128 + (cp % 64)>>
     ELSE <<224 + (cp \div 4096), 128 + ((cp \div 64) % 64), 128 + (cp % 64)>>)
    \o Utf8Encode(Tail(t))

\* ------------------------------------------------------------------------
\* State
\* ------------------------------------------------------------------------

VARIABLES
  tabs,        \* QTabWidget: the editors in tab-bar order, widget(i) = tabs[i+1]
  cur,         \* QTabWidget.currentIndex(), -1 when there is no tab
  editors,     \* TabWidget.editors    {index: editor}
  file_paths,  \* TabWidget.file_paths {index: file_path}
  ed,          \* per editor: file_path, document text and modified flag,
               \* and the index captured by the lambdas new_tab connected
  disk,        \* the file system: path -> [exists, bytes]
  window,      \* "open", or "closed" once closeEvent accepted the event
  announced,   \* the editor current_editor_changed was last emitted with
               \* (NoEditor for None, and before any emission)
  op,          \* the handler that ran last and the answer the user gave it
  ret,         \* what that handler returned (for a main-window handler:
               \* whether it reported success)
  nops,        \* how many handlers have run
  doc,         \* replace_all: the document text (toPlainText())
  doc0,        \* replace_all: the document text before the call
  args,        \* replace_all: find_text, replace_text and the three options
  count_ret,   \* replace_all: the count returned, -1 before the call
  locale_files,      \* resources/i18n/locales: code -> "ok", "missing", "corrupt"
  system_locale,     \* QLocale.system().name()
  settings_language, \* QSettings value 'language', None when never written
  current_locale,    \* I18nManager._current_locale
  translations,      \* I18nManager._translations
  emits,             \* language_changed emissions since the manager was built
  last_emitted,      \* the locale the last emission carried, None if none yet
  menu_texts,        \* the texts of the main window's menu bar and toolbar
  tr_call,           \* the last tr(key, **kwargs) call
  tr_ret,            \* what it returned
  themes,            \* ThemeManager.themes: name -> theme data
  current_theme,     \* ThemeManager.current_theme
  theme_emits,       \* theme_changed emissions
  theme_last,        \* the name the last emission carried, None if none yet
  stylesheet,        \* the main window's stylesheet
  pygments_available, \* syntax.PYGMENTS_AVAILABLE
  language,          \* SyntaxHighlighter.language
  lexer,             \* SyntaxHighlighter.lexer: a lexer's name, None if none
  formats,           \* SyntaxHighlighter.formats
  token_formats,     \* SyntaxHighlighter.token_formats (empty if never built)
  hl_applied,        \* what the last highlightBlock call applied to its block
  detect_path,       \* the file path language detection ran on last, as characters
  window_state,      \* the main window's state: "normal" or "maximized"
  settings_window_state, \* the window state in the settings store, None if none
  find_input,        \* SearchDialog: the text of the search inputs, as characters
  replace_input,     \* SearchDialog.replace_input's text
  dialog_tab,        \* SearchDialog.tab_widget.currentIndex(): 0 find, 1 replace
  case_sensitive_cb, \* the three option check boxes
  whole_words_cb,
  regex_cb,
  current_matches,   \* SearchDialog.current_matches: (start, end) pairs
  current_match_index, \* SearchDialog.current_match_index
  last_search_text,  \* SearchDialog.last_search_text
  stats_label,       \* what SearchDialog.stats_label shows
  dialog_alive,      \* FALSE once an exception left one of the dialog's slots
  menu_actions,      \* MainWindow: which edit-menu actions are enabled
  toolbar_buttons    \* MainWindow: which edit buttons of the toolbar are enabled

tabVars ==
  <<tabs, cur, editors, file_paths, ed, disk, window, announced>>

replaceVars ==
  <<doc, doc0, args, count_ret>>

i18nVars ==
  <<locale_files, system_locale, settings_language, current_locale,
    translations, emits, last_emitted, menu_texts, tr_call, tr_ret>>

themeVars ==
  <<themes, current_theme, theme_emits, theme_last, stylesheet>>

\* The components added after the tab manager, replace_all and i18n.
syntaxVars ==
  <<pygments_available, language, lexer, formats, token_formats, hl_applied,
    detect_path>>

windowVars ==
  <<window_state, settings_window_state>>

searchVars ==
  <<find_input, replace_input, dialog_tab, case_sensitive_cb, whole_words_cb,
    regex_cb, current_matches, current_match_index, last_search_text,
    stats_label, dialog_alive>>

restVars ==
  <<themeVars, syntaxVars, windowVars, searchVars>>

editVars ==
  <<menu_actions, toolbar_buttons>>

vars ==
  <<tabs, cur, editors, file_paths, ed, disk, window, op, ret, nops,
    doc, doc0, args, count_ret,
    locale_files, system_locale, settings_language, current_locale,
    translations, emits, last_emitted, menu_texts, tr_call, tr_ret,
    restVars, editVars>>

Missing ==
  [exists |-> FALSE, bytes |-> <<>>]

File(b) ==
  [exists |-> TRUE, bytes |-> b]

\* An editor id that is not in use holds this placeholder.
NoEditorState ==
  [file_path |-> None, modified |-> FALSE, text |-> <<>>, index |-> 0]

\* The tab manager, the editors and the disk as one value, so that the
\* methods below can be composed the way the handlers call them.
State ==
  [tabs |-> tabs, cur |-> cur, editors |-> editors, file_paths |-> file_paths,
   ed |-> ed, disk |-> disk, announced |-> announced,
   emitted |-> FALSE, shown |-> NoEditor]

count(S) ==
  Len(S.tabs)

InUse(S) ==
  {S.tabs[j] : j \in 1..Len(S.tabs)}

FreshEditor(S) ==
  CHOOSE e \in EditorIds \ InUse(S) : \A f \in EditorIds \ InUse(S) : e <= f

\* ------------------------------------------------------------------------
\* QTabWidget
\* ------------------------------------------------------------------------

\* TabWidget._on_current_changed(index), the slot of currentChanged: the
\* editor the map holds for the index is announced (None if it holds none).
on_current_changed(S, index) ==
  [S EXCEPT !.announced = DictGet(S.editors, index, NoEditor),
            !.emitted = TRUE,
            !.shown = DictGet(S.editors, S.cur, NoEditor)]

\* setCurrentIndex ignores an index that is not a tab; currentChanged is
\* emitted when the current index changes.
setCurrentIndex(S, index) ==
  IF index >= 0 /\ index < count(S) /\ index # S.cur
  THEN on_current_changed([S EXCEPT !.cur = index], index)
  ELSE S

\* removeTab: the tab to the right of a removed current tab becomes current
\* (the last one if there is none); a tab removed to the left of the current
\* one shifts the current index down.  currentChanged is emitted, before
\* removeTab returns, when the current tab was removed (with -1 when it was
\* the last tab) and when the current index was shifted.
removeTab(S, index) ==
  LET n == count(S)
      rest == [j \in 1..(n - 1) |-> IF j <= index THEN S.tabs[j] ELSE S.tabs[j + 1]]
      newCur == IF index = S.cur
                THEN (IF n = 1 THEN -1 ELSE IF index <= n - 2 THEN index ELSE n - 2)
                ELSE IF index < S.cur THEN S.cur - 1 ELSE S.cur
      R == [S EXCEPT !.tabs = rest, !.cur = newCur]
  IN IF index <= S.cur THEN on_current_changed(R, newCur) ELSE R

\* Dragging the current tab to position `to` (setMovable(True)): the widgets
\* are reordered and the dragged tab stays current; no slot of TabWidget runs.
moveTab(S, to) ==
  LET from == S.cur
      e == S.tabs[from + 1]
      without == [j \in 1..(count(S) - 1) |->
                    IF j <= from THEN S.tabs[j] ELSE S.tabs[j + 1]]
      moved == [j \in 1..count(S) |->
                    IF j <= to THEN without[j]
                    ELSE IF j = to + 1 THEN e
                    ELSE without[j - 1]]
  IN [S EXCEPT !.tabs = moved, !.cur = to]

\* ------------------------------------------------------------------------
\* TextEditor
\* ------------------------------------------------------------------------

\* TabWidget._on_file_path_changed(index, file_path)
on_file_path_changed(S, index, file_path) ==
  [S EXCEPT !.file_paths = DictSet(@, index, file_path)]

\* TextEditor.set_file_path of an editor whose file_path_changed signal is
\* connected: the slot runs with the index the lambda captured in new_tab.
set_file_path(S, e, file_path) ==
  on_file_path_changed([S EXCEPT !.ed[e].file_path = file_path],
                       S.ed[e].index, file_path)

\* TextEditor._save_to_file; ok = FALSE is open()/write() raising.
\* file_encoding is 'utf-8' for every editor a tab holds.
save_to_file(S, e, file_path, ok) ==
  IF ok
  THEN [ret |-> TRUE,
        S |-> [S EXCEPT !.disk[file_path] = File(Utf8Encode(S.ed[e].text)),
                        !.ed[e].modified = FALSE]]
  ELSE [ret |-> FALSE, S |-> S]

\* A save_as that sets the file path before it writes.
save_as_sets_path_first(S, e, file_path, dlg, ok) ==
  LET p == IF file_path = None THEN dlg ELSE file_path IN
    IF p # None
    THEN LET w == save_to_file(set_file_path(S, e, p), e, p, ok) IN
           [ret |-> w.ret, S |-> w.S]
    ELSE [ret |-> FALSE, S |-> S]

\* TextEditor.save_as(file_path); dlg is what QFileDialog.getSaveFileName
\* returns when file_path is not given (None when the user cancels).
save_as(S, e, file_path, dlg, ok) ==
  LET p == IF file_path = None THEN dlg ELSE file_path IN
    IF p # None
    THEN LET w == save_to_file(S, e, p, ok) IN
           IF w.ret THEN [ret |-> TRUE, S |-> set_file_path(w.S, e, p)]
           ELSE [ret |-> FALSE, S |-> S]
    ELSE [ret |-> FALSE, S |-> S]

\* A save that writes an editor without a path to a default path.
save_to_default_path(S, e, dlg, ok) ==
  IF S.ed[e].file_path = None
  THEN save_as(S, e, "a", dlg, ok)
  ELSE save_to_file(S, e, S.ed[e].file_path, ok)

\* TextEditor.save()
save(S, e, dlg, ok) ==
  IF S.ed[e].file_path = None
  THEN save_as(S, e, None, dlg, ok)
  ELSE save_to_file(S, e, S.ed[e].file_path, ok)

\* ------------------------------------------------------------------------
\* TabWidget
\* ------------------------------------------------------------------------

\* TabWidget.new_tab(file_path, content, display_name): returns the new
\* state and the index of the new tab.  setPlainText leaves the document
\* unmodified; set_file_path runs before the signal is connected.
new_tab(S, file_path, content) ==
  LET e == FreshEditor(S)
      index == count(S)
  IN [index |-> index,
      S |-> [S EXCEPT
               !.tabs = Append(@, e),
               !.ed[e] = [file_path |-> file_path, modified |-> FALSE,
                          text |-> content, index |-> index],
               !.editors = DictSet(@, index, e),
               !.file_paths = DictSet(@, index, file_path),
               !.cur = index,
               !.announced = e,
               !.emitted = TRUE,
               !.shown = e]]

\* The index open_file's scan of file_paths.items() stops at, -1 if none
\* (also TabWidget.find_tab_by_file_path).
find_tab_by_file_path(S, file_path) ==
  IF \E j \in 1..Len(S.file_paths) : S.file_paths[j].v = file_path
  THEN LET j == CHOOSE j \in 1..Len(S.file_paths) :
                  /\ S.file_paths[j].v = file_path
                  /\ \A i \in 1..(j - 1) : S.file_paths[i].v # file_path
       IN S.file_paths[j].k
  ELSE -1

\* A reader that tries GBK before UTF-8.
read_file_gbk_first(f) ==
  IF ~f.exists THEN DecodeError
  ELSE IF GbkDecode(f.bytes).ok THEN GbkDecode(f.bytes)
  ELSE Utf8Decode(f.bytes)

\* What the two read attempts of open_file yield for a file.
read_file(f) ==
  IF ~f.exists THEN DecodeError
  ELSE IF Utf8Decode(f.bytes).ok THEN Utf8Decode(f.bytes)
  ELSE GbkDecode(f.bytes)

\* TabWidget.open_file(file_path)
open_file(S, file_path) ==
  LET found == find_tab_by_file_path(S, file_path) IN
    IF found # -1
    THEN [ret |-> TRUE, S |-> setCurrentIndex(S, found)]
    ELSE LET r == read_file(S.disk[file_path]) IN
           IF r.ok
           THEN LET n == new_tab(S, file_path, r.text)
                    e == DictGet(n.S.editors, n.index, NoEditor)
                IN [ret |-> TRUE, S |-> [n.S EXCEPT !.ed[e].modified = FALSE]]
           ELSE [ret |-> FALSE, S |-> S]

\* TabWidget._update_index_mappings()
update_index_mappings(S) ==
  LET new_editors == [i \in 1..count(S) |-> [k |-> i - 1, v |-> S.tabs[i]]]
      has_old(i) == \E j \in 1..Len(S.editors) : S.editors[j].v = S.tabs[i]
      old_index(i) ==
        S.editors[CHOOSE j \in 1..Len(S.editors) :
                    /\ S.editors[j].v = S.tabs[i]
                    /\ \A h \in 1..(j - 1) : S.editors[h].v # S.tabs[i]].k
      found == SelectSeq([i \in 1..count(S) |-> i], has_old)
      new_file_paths ==
        [j \in 1..Len(found) |->
           [k |-> found[j] - 1,
            v |-> DictGet(S.file_paths, old_index(found[j]), None)]]
  IN [S EXCEPT !.editors = new_editors, !.file_paths = new_file_paths]

\* TabWidget.close_tab(index); reply is the answer to the unsaved-changes
\* question, dlg and ok feed the save it may trigger.
close_tab(S, index, reply, dlg, ok) ==
  IF index < 0 \/ index >= count(S) THEN [ret |-> FALSE, S |-> S]
  ELSE LET editor == DictGet(S.editors, index, NoEditor) IN
    IF editor = NoEditor THEN [ret |-> FALSE, S |-> S]
    ELSE LET asked == S.ed[editor].modified
             saved == IF asked /\ reply = "Save"
                      THEN save(S, editor, dlg, ok)
                      ELSE [ret |-> TRUE, S |-> S]
         IN IF asked /\ reply = "Save" /\ ~saved.ret THEN [ret |-> FALSE, S |-> S]
            ELSE IF asked /\ reply = "Cancel" THEN [ret |-> FALSE, S |-> S]
            ELSE LET gone == S.tabs[index + 1]
                     R == removeTab(saved.S, index)
                     D == [R EXCEPT !.editors = DictDel(@, index),
                                    !.file_paths = DictDel(@, index),
                                    !.ed[gone] = NoEditorState]
                     U == update_index_mappings(D)
                 IN [ret |-> TRUE,
                     S |-> IF count(U) = 0
                           THEN [U EXCEPT !.announced = NoEditor,
                                          !.emitted = TRUE,
                                          !.shown = NoEditor]
                           ELSE U]

\* A check that looks at the current editor only.
has_unsaved_changes_current_only(S) ==
  /\ DictHas(S.editors, S.cur)
  /\ S.ed[DictGet(S.editors, S.cur, NoEditor)].modified

\* TabWidget.has_unsaved_changes()
has_unsaved_changes(S) ==
  \E e \in DictValues(S.editors) : S.ed[e].modified

\* TabWidget.get_current_editor()
get_current_editor(S) ==
  DictGet(S.editors, S.cur, NoEditor)

\* ------------------------------------------------------------------------
\* TextEditor.replace_all
\* ------------------------------------------------------------------------

\* Longest document and longest search text explored.
MaxDocLen ==
  3

MaxFindLen ==
  2

\* Characters of documents and search texts: two letters that differ only
\* in case, a space (not a word character) and the regex metacharacter '.'.
Chars ==
  {"a", "A", " ", "."}

ReplaceTexts ==
  {<<>>, <<"b">>, <<"a", "a">>}

Strings(n) ==
  UNION {[1..k -> Chars] : k \in 0..n}

\* str.lower() on one character.
lower(c) ==
  IF c = "A" THEN "a" ELSE c

\* \w
IsWordChar(c) ==
  c \in {"a", "A", "b"}

\* \b at offset i of text (between text[i] and text[i+1], 1-based).
WordBoundary(text, i) ==
  LET before == i >= 1 /\ IsWordChar(text[i])
      after == i < Len(text) /\ IsWordChar(text[i + 1])
  IN before # after

\* re.compile(find_text): '.' matches any character (no newline is in
\* Chars), every other character of Chars matches itself;
\* re.compile(re.escape(find_text)): every character matches itself.
compile(find_text, escaped) ==
  [j \in 1..Len(find_text) |->
     [c |-> find_text[j], any |-> ~escaped /\ find_text[j] = "."]]

\* Does the pattern match text at offset pos (0-based)?  ignorecase is
\* re.IGNORECASE, bounded wraps the pattern in \b ... \b.
MatchAt(pattern, ignorecase, bounded, text, pos) ==
  /\ pos + Len(pattern) <= Len(text)
  /\ \A j \in 1..Len(pattern) :
       \/ pattern[j].any
       \/ IF ignorecase THEN lower(pattern[j].c) = lower(text[pos + j])
          ELSE pattern[j].c = text[pos + j]
  /\ bounded => WordBoundary(text, pos) /\ WordBoundary(text, pos + Len(pattern))

\* pattern.finditer(text) from offset pos on: the start offsets of the
\* leftmost non-overlapping matches (the pattern is not empty).
RECURSIVE finditer(_, _, _, _, _)
finditer(pattern, ignorecase, bounded, text, pos) ==
  IF pos + Len(pattern) > Len(text) THEN <<>>
  ELSE IF MatchAt(pattern, ignorecase, bounded, text, pos)
    THEN <<pos>> \o finditer(pattern, ignorecase, bounded, text, pos + Len(pattern))
  ELSE finditer(pattern, ignorecase, bounded, text, pos + 1)

\* The text with the matches of length m at the offsets `starts` replaced,
\* built left to right from offset pos (pattern.subn, str.replace).
RECURSIVE substitute(_, _, _, _, _)
substitute(text, starts, m, replace_text, pos) ==
  IF starts = <<>> THEN SubSeq(text, pos + 1, Len(text))
  ELSE SubSeq(text, pos + 1, Head(starts)) \o replace_text
       \o substitute(text, Tail(starts), m, replace_text, Head(starts) + m)

\* for match in reversed(matches): new_text = new_text[:start] + replace_text
\*                                            + new_text[end:]
RECURSIVE replace_reversed(_, _, _, _)
replace_reversed(new_text, starts, m, replace_text) ==
  IF starts = <<>> THEN new_text
  ELSE LET start == starts[Len(starts)] IN
    replace_reversed(SubSeq(new_text, 1, start) \o replace_text
                       \o SubSeq(new_text, start + m + 1, Len(new_text)),
                     SubSeq(starts, 1, Len(starts) - 1), m, replace_text)

\* What setPlainText(new_text) runs on in the case-sensitive plain branch.
plain_case_sensitive(doc_text, find_text, replace_text) ==
  LET starts == finditer(compile(find_text, TRUE), FALSE, FALSE, doc_text, 0)
      new_text == substitute(doc_text, starts, Len(find_text), replace_text, 0)
  IN \* new_text is computed and dropped: setPlainText is not called
     [count |-> Len(starts), doc |-> doc_text]

\* TextEditor.replace_all(find_text, replace_text, case_sensitive,
\*                        whole_words, regex): the count returned and the
\* document text afterwards.
replace_all(doc_text, a) ==
  LET m == Len(a.find_text)
      via(starts) ==
        [count |-> Len(starts),
         doc |-> IF Len(starts) > 0
                 THEN substitute(doc_text, starts, m, a.replace_text, 0)
                 ELSE doc_text]
  IN IF a.find_text = <<>> THEN [count |-> 0, doc |-> doc_text]
     ELSE IF a.regex
       THEN via(finditer(compile(a.find_text, FALSE), ~a.case_sensitive, FALSE,
                         doc_text, 0))
     ELSE IF a.whole_words
       THEN via(finditer(compile(a.find_text, TRUE), ~a.case_sensitive, TRUE,
                         doc_text, 0))
     ELSE IF a.case_sensitive
       THEN plain_case_sensitive(doc_text, a.find_text, a.replace_text)
     ELSE LET matches == finditer(compile(a.find_text, TRUE), TRUE, FALSE,
                                  doc_text, 0)
          IN [count |-> Len(matches),
              doc |-> IF Len(matches) > 0
                      THEN replace_reversed(doc_text, matches, m, a.replace_text)
                      ELSE doc_text]

\* ------------------------------------------------------------------------
\* SearchDialog
\* ------------------------------------------------------------------------

\* The dialog's fields and widgets, with the parent editor's document, as
\* one value.  The two search inputs are one field: _sync_search_inputs
\* copies the edited one to the other on every change.
Dialog ==
  [doc |-> doc, find_input |-> find_input, replace_input |-> replace_input,
   tab |-> dialog_tab, case_sensitive |-> case_sensitive_cb,
   whole_words |-> whole_words_cb, regex |-> regex_cb,
   current_matches |-> current_matches,
   current_match_index |-> current_match_index,
   last_search_text |-> last_search_text, stats |-> stats_label,
   alive |-> dialog_alive]

\* What stats_label shows: which message, and the number in it.
Stats(kind, n) ==
  [kind |-> kind, n |-> n]

\* target_text.find(search_text, start) in a loop with start = pos + 1:
\* every offset from pos on at which the search text occurs.
RECURSIVE find_loop(_, _, _, _)
find_loop(pattern, ignorecase, text, pos) ==
  IF pos + Len(pattern) > Len(text) THEN <<>>
  ELSE IF MatchAt(pattern, ignorecase, FALSE, text, pos)
    THEN <<pos>> \o find_loop(pattern, ignorecase, text, pos + 1)
  ELSE find_loop(pattern, ignorecase, text, pos + 1)

\* The (start, end) pairs of matches of length m at the offsets `starts`.
spans(starts, m) ==
  [j \in 1..Len(starts) |-> <<starts[j], starts[j] + m>>]

\* SearchDialog._find_all_matches(text).  The function imports re in its
\* whole-words branch, which makes re a local name of the whole function:
\* the regex branch reads it before it is bound and raises UnboundLocalError
\* (and so does the except clause that names re.error).
find_all_matches(D, text) ==
  IF text = <<>> THEN [raised |-> FALSE, matches |-> <<>>]
  ELSE IF D.regex THEN [raised |-> TRUE, matches |-> <<>>]
  ELSE IF D.whole_words
    THEN [raised |-> FALSE,
          matches |-> spans(finditer(compile(text, TRUE), ~D.case_sensitive,
                                     TRUE, D.doc, 0), Len(text))]
  ELSE [raised |-> FALSE,
        matches |-> spans(find_loop(compile(text, TRUE), ~D.case_sensitive,
                                    D.doc, 0), Len(text))]

\* An exception that leaves a slot is not caught anywhere: PyQt ends the
\* application.
unhandled(D) ==
  [D EXCEPT !.alive = FALSE]

\* SearchDialog._on_search_text_changed after the user edited the search
\* input to `text`.
on_search_text_changed(D, text) ==
  [D EXCEPT !.find_input = text,
            !.current_matches = <<>>,
            !.current_match_index = -1,
            !.last_search_text = <<>>,
            !.stats = Stats("ready", 0)]

\* SearchDialog._on_options_changed
on_options_changed(D) ==
  [D EXCEPT !.current_matches = <<>>,
            !.current_match_index = -1,
            !.last_search_text = <<>>,
            !.stats = Stats("options_changed", 0)]

\* SearchDialog._on_find_all
on_find_all(D) ==
  LET text == D.find_input IN
    IF text = <<>> THEN D
    ELSE LET r == find_all_matches(D, text) IN
      IF r.raised THEN unhandled(D)
      ELSE IF r.matches # <<>>
        THEN [D EXCEPT !.current_matches = r.matches,
                       !.last_search_text = text,
                       !.current_match_index = 0,
                       !.stats = Stats("found", Len(r.matches))]
      ELSE [D EXCEPT !.current_matches = r.matches,
                     !.last_search_text = text,
                     !.stats = Stats("not_found", 0)]

\* Does Find Next ask whether to start again from the first match?
find_next_asks(D) ==
  /\ D.find_input # <<>>
  /\ D.find_input = D.last_search_text
  /\ D.current_matches # <<>>
  /\ ~(D.current_match_index < Len(D.current_matches) - 1)

\* A Find Next that starts again from the first match without asking.
on_find_next_always_wraps(D, reply) ==
  LET text == D.find_input IN
    IF text = <<>> THEN D
    ELSE IF text # D.last_search_text THEN on_find_all(D)
    ELSE IF D.current_matches = <<>> THEN on_find_all(D)
    ELSE IF D.current_match_index < Len(D.current_matches) - 1
      THEN [D EXCEPT !.current_match_index = @ + 1,
                     !.stats = Stats("found", Len(D.current_matches))]
    ELSE [D EXCEPT !.current_match_index = 0,
                   !.stats = Stats("found", Len(D.current_matches))]

\* SearchDialog._on_find_next; reply answers the question asked at the last
\* match.
on_find_next(D, reply) ==
  LET text == D.find_input IN
    IF text = <<>> THEN D
    ELSE IF text # D.last_search_text THEN on_find_all(D)
    ELSE IF D.current_matches = <<>> THEN on_find_all(D)
    ELSE IF D.current_match_index < Len(D.current_matches) - 1
      THEN [D EXCEPT !.current_match_index = @ + 1,
                     !.stats = Stats("found", Len(D.current_matches))]
    ELSE IF reply = "Yes"
      THEN [D EXCEPT !.current_match_index = 0,
                     !.stats = Stats("found", Len(D.current_matches))]
    ELSE D

\* Does Find Previous ask whether to start again from the last match?
find_previous_asks(D) ==
  /\ D.find_input # <<>>
  /\ D.find_input = D.last_search_text
  /\ D.current_matches # <<>>
  /\ ~(D.current_match_index > 0)

\* SearchDialog._on_find_previous; reply answers the question asked at the
\* first match.
on_find_previous(D, reply) ==
  LET text == D.find_input IN
    IF text = <<>> THEN D
    ELSE IF text # D.last_search_text
      THEN LET F == on_find_all(D) IN
             IF F.alive /\ F.current_matches # <<>>
             THEN [F EXCEPT !.current_match_index = Len(F.current_matches) - 1,
                            !.stats = Stats("found", Len(F.current_matches))]
             ELSE F
    ELSE IF D.current_matches = <<>> THEN on_find_all(D)
    ELSE IF D.current_match_index > 0
      THEN [D EXCEPT !.current_match_index = @ - 1,
                     !.stats = Stats("found", Len(D.current_matches))]
    ELSE IF reply = "Yes"
      THEN [D EXCEPT !.current_match_index = Len(D.current_matches) - 1,
                     !.stats = Stats("found", Len(D.current_matches))]
    ELSE D

\* cursor.setPosition(start); cursor.setPosition(end, KeepAnchor);
\* cursor.insertText(replace_text)
insertText(text, span, replace_text) ==
  SubSeq(text, 1, span[1]) \o replace_text \o SubSeq(text, span[2] + 1, Len(text))

\* SearchDialog._on_replace_current
on_replace_current(D) ==
  IF D.tab = 0 THEN D
  ELSE IF D.find_input = <<>> THEN D
  ELSE IF D.current_matches = <<>> \/ D.current_match_index < 0 THEN D
  ELSE LET span == D.current_matches[D.current_match_index + 1]
           E == [D EXCEPT !.doc = insertText(@, span, D.replace_input)]
           r == find_all_matches(E, D.find_input)
       IN IF r.raised THEN unhandled(E)
          ELSE IF r.matches # <<>>
            THEN LET idx == IF D.current_match_index >= Len(r.matches)
                            THEN Len(r.matches) - 1
                            ELSE D.current_match_index
                 IN [E EXCEPT !.current_matches = r.matches,
                              !.last_search_text = D.find_input,
                              !.current_match_index = idx,
                              !.stats = Stats("replaced", Len(r.matches))]
          ELSE [E EXCEPT !.current_matches = r.matches,
                         !.last_search_text = D.find_input,
                         !.stats = Stats("replaced", 0)]

\* The arguments _on_replace_all passes to the editor's replace_all.
replace_all_args(D) ==
  [find_text |-> D.find_input, replace_text |-> D.replace_input,
   case_sensitive |-> D.case_sensitive, whole_words |-> D.whole_words,
   regex |-> D.regex]

\* SearchDialog._on_replace_all
on_replace_all(D) ==
  IF D.tab = 0 THEN D
  ELSE IF D.find_input = <<>> THEN D
  ELSE LET r == replace_all(D.doc, replace_all_args(D)) IN
    [D EXCEPT !.doc = r.doc,
              !.current_matches = <<>>,
              !.current_match_index = -1,
              !.last_search_text = <<>>,
              !.stats = Stats("replaced_all", r.count)]

\* SearchDialog.__init__ on an editor without a selection.
SearchIdle ==
  /\ find_input = <<>>
  /\ replace_input = <<>>
  /\ dialog_tab = 0
  /\ case_sensitive_cb = FALSE
  /\ whole_words_cb = FALSE
  /\ regex_cb = FALSE
  /\ current_matches = <<>>
  /\ current_match_index = -1
  /\ last_search_text = <<>>
  /\ stats_label = Stats("ready", 0)
  /\ dialog_alive = TRUE

\* ------------------------------------------------------------------------
\* MainWindow: the edit actions
\* ------------------------------------------------------------------------

\* The enabled flags of the edit-menu actions as _create_menus builds them:
\* setEnabled(False) on undo, redo, cut and copy; the paste action keeps the
\* default of a new QAction.
edit_menu_actions ==
  [undo |-> FALSE, redo |-> FALSE, cut |-> FALSE, copy |-> FALSE, paste |-> TRUE]

\* The enabled flags of the toolbar's edit buttons as _create_toolbar builds
\* them (the toolbar has no cut button).
edit_toolbar_buttons ==
  [undo |-> FALSE, redo |-> FALSE, copy |-> FALSE, paste |-> TRUE]

\* The main window's edit actions as one value.
EditActions ==
  [menu |-> menu_actions, toolbar |-> toolbar_buttons]

\* MainWindow._disable_edit_actions
disable_edit_actions(W) ==
  [menu |-> [undo |-> FALSE, redo |-> FALSE, cut |-> FALSE, copy |-> FALSE,
             paste |-> FALSE],
   toolbar |-> [undo |-> FALSE, redo |-> FALSE, copy |-> FALSE, paste |-> FALSE]]

\* MainWindow._update_edit_actions; current is tab_widget.get_current_editor(),
\* env.selection whether its cursor has a selection, env.clipboard whether
\* the clipboard holds text.
update_edit_actions(W, current, env) ==
  IF current # NoEditor
  THEN [W EXCEPT !.menu.cut = env.selection,
                 !.menu.copy = env.selection,
                 !.toolbar.copy = env.selection,
                 !.menu.paste = env.clipboard,
                 !.toolbar.paste = env.clipboard]
  ELSE disable_edit_actions(W)

\* MainWindow._update_undo_action(available)
update_undo_action(W, available) ==
  [W EXCEPT !.menu.undo = available, !.toolbar.undo = available]

\* MainWindow._update_redo_action(available)
update_redo_action(W, available) ==
  [W EXCEPT !.menu.redo = available, !.toolbar.redo = available]

\* MainWindow._on_editor_changed(editor), the slot of current_editor_changed;
\* env.undo and env.redo are what the editor's document reports.
on_editor_changed(W, editor, current, env) ==
  IF editor # NoEditor
  THEN update_redo_action(
         update_undo_action(update_edit_actions(W, current, env), env.undo),
         env.redo)
  ELSE disable_edit_actions(W)

\* MainWindow._recreate_toolbar (theme change): new toolbar buttons.
recreate_toolbar(W) ==
  [W EXCEPT !.toolbar = edit_toolbar_buttons]

\* MainWindow.refresh_ui (language change): new menus and a new toolbar.
refresh_ui(W) ==
  [menu |-> edit_menu_actions, toolbar |-> edit_toolbar_buttons]

\* ------------------------------------------------------------------------
\* I18nManager
\* ------------------------------------------------------------------------

\* Locale codes set_locale is called with; no file exists for xx_XX.
LocaleCodes ==
  {"zh_CN", "en_US", "ja_JP", "xx_XX"}

SystemLocales ==
  {"zh_CN", "en_GB", "fr_FR"}

\* I18nManager._fallback_locale
fallback_locale ==
  "zh_CN"

\* system_locale.split('_')[0]
lang_code(locale) ==
  CASE locale \in {"zh_CN"} -> "zh"
    [] locale \in {"en_US", "en_GB"} -> "en"
    [] locale \in {"ja_JP"} -> "ja"
    [] locale \in {"fr_FR"} -> "fr"
    [] OTHER -> "xx"

\* A JSON string value (a text: literal pieces and {name} placeholders) and
\* a JSON object.
Str(toks) ==
  [kind |-> "str", toks |-> toks, items |-> <<>>]

Dict(items) ==
  [kind |-> "dict", toks |-> <<>>, items |-> items]

\* The content of <locale>.json: the same key layout in every language,
\* the texts prefixed by the language.
LocaleTree(locale) ==
  LET L == lang_code(locale) IN
  Dict([app |-> Dict([title |-> Str(<<L, "Chango Editor">>)]),
        menu |-> Dict([file |-> Dict([title |-> Str(<<L, "File">>)]),
                       language |-> Str(<<L, "Language">>)]),
        toolbar |-> Dict([main |-> Str(<<L, "Main toolbar">>)]),
        message |-> Dict([language_changed |->
                            Str(<<L, "Language is", "{language}">>)])])

\* The placeholder a piece of text stands for, None for a literal piece.
placeholder(tok) ==
  CASE tok = "{language}" -> "language"
    [] tok = "{filename}" -> "filename"
    [] OTHER -> None

\* I18nManager._locale_exists
locale_exists(files, locale) ==
  locale \in DOMAIN files /\ files[locale] # "missing"

\* The manager's fields as one value.
I18n ==
  [files |-> locale_files, system |-> system_locale,
   settings |-> settings_language, current |-> current_locale,
   translations |-> translations, emits |-> emits, last |-> last_emitted]

\* json.load(f) of a locale file; a corrupt file raises.
json_load(files, locale) ==
  [ok |-> files[locale] = "ok", value |-> LocaleTree(locale)]

\* I18nManager.set_locale(locale)
set_locale(M, locale) ==
  IF locale_exists(M.files, locale)
  THEN LET j == json_load(M.files, locale) IN
         IF j.ok
         THEN [M EXCEPT !.translations = j.value,
                        !.current = locale,
                        !.settings = locale,
                        !.emits = @ + 1,
                        !.last = locale]
         ELSE [M EXCEPT !.translations = Dict(<<>>)]
  ELSE IF locale_exists(M.files, fallback_locale)
    THEN LET j == json_load(M.files, fallback_locale) IN
           IF j.ok
           THEN [M EXCEPT !.translations = j.value, !.current = fallback_locale]
           ELSE [M EXCEPT !.translations = Dict(<<>>)]
  ELSE [M EXCEPT !.translations = Dict(<<>>)]

\* I18nManager._load_locale()
load_locale(M) ==
  LET matching == {l \in DOMAIN M.files :
                     locale_exists(M.files, l) /\ lang_code(l) = lang_code(M.system)}
      saved_locale ==
        IF M.settings # None THEN M.settings
        ELSE IF locale_exists(M.files, M.system) THEN M.system
        ELSE IF matching # {} THEN CHOOSE l \in matching : TRUE
        ELSE fallback_locale
  IN set_locale(M, saved_locale)

\* I18nManager.__init__ with the settings and files found at start-up.
i18n_init(files, system, settings) ==
  load_locale([files |-> files, system |-> system, settings |-> settings,
               current |-> "zh_CN", translations |-> Dict(<<>>),
               emits |-> 0, last |-> None])

\* The result of tr: the text found, the key itself, or str() of a value
\* that is not a text.
TrText(toks) ==
  [kind |-> "text", toks |-> toks, key |-> <<>>]

TrKey(key) ==
  [kind |-> "key", toks |-> <<>>, key |-> key]

TrRepr(key) ==
  [kind |-> "repr", toks |-> <<>>, key |-> key]

\* for k in keys: value = value[k]; a KeyError or TypeError ends the walk.
RECURSIVE walk(_, _)
walk(value, keys) ==
  IF keys = <<>> THEN [ok |-> TRUE, value |-> value]
  ELSE IF value.kind = "dict" /\ Head(keys) \in DOMAIN value.items
    THEN walk(value.items[Head(keys)], Tail(keys))
  ELSE [ok |-> FALSE, value |-> value]

\* value.format(**kwargs); a placeholder kwargs does not name raises KeyError.
format(toks, kwargs) ==
  IF \A j \in 1..Len(toks) :
       placeholder(toks[j]) = None \/ placeholder(toks[j]) \in DOMAIN kwargs
  THEN [ok |-> TRUE,
        toks |-> [j \in 1..Len(toks) |->
                    IF placeholder(toks[j]) = None THEN toks[j]
                    ELSE kwargs[placeholder(toks[j])]]]
  ELSE [ok |-> FALSE, toks |-> <<>>]

\* I18nManager.tr(key, **kwargs); key is given as key.split('.').
tr(tree, key, kwargs) ==
  LET w == walk(tree, key) IN
    IF ~w.ok THEN TrKey(key)
    ELSE IF DOMAIN kwargs # {} /\ w.value.kind = "str"
      THEN LET f == format(w.value.toks, kwargs) IN
             IF f.ok THEN TrText(f.toks) ELSE TrKey(key)
    ELSE IF w.value.kind = "str" THEN TrText(w.value.toks)
    ELSE TrRepr(key)

\* The keys MainWindow._create_menus and _create_toolbar look up.
MenuKeys ==
  {<<"menu", "file", "title">>, <<"menu", "language">>, <<"toolbar", "main">>}

\* MainWindow._create_menus and _create_toolbar: every text is tr(key) at
\* the time the widgets are built.
create_menus(tree) ==
  [k \in MenuKeys |-> tr(tree, k, <<>>)]

\* ------------------------------------------------------------------------
\* ThemeManager
\* ------------------------------------------------------------------------

\* A theme file's "colors" object; solarized leaves 'foreground' out.
ThemeData(name) ==
  CASE name = "dark" -> [colors |-> [background |-> "#1e1e1e", foreground |-> "#d4d4d4"]]
    [] name = "light" -> [colors |-> [background |-> "#ffffff", foreground |-> "#000000"]]
    [] OTHER -> [colors |-> [background |-> "#002b36"]]

\* The sets of theme files _load_themes can find (the two defaults when the
\* directory is missing).
LoadedThemeSets ==
  {{"dark", "light"}, {"dark", "light", "solarized"}, {"light"}, {}}

\* The names set_theme is called with.
ThemeArgs ==
  {"dark", "light", "solarized", "nope"}

\* colors.get(key, default)
colors_get(colors, key, default) ==
  IF key \in DOMAIN colors THEN colors[key] ELSE default

\* ThemeManager.get_theme_stylesheet(theme_name): the colours the generated
\* sheet is made of, the empty sheet for a name that is not loaded.
get_theme_stylesheet(T, theme_name) ==
  IF theme_name \notin DOMAIN T THEN <<>>
  ELSE LET colors == T[theme_name].colors IN
         <<colors_get(colors, "background", "#2b2b2b"),
           colors_get(colors, "foreground", "#ffffff")>>

\* The manager's fields as one value.
Theme ==
  [themes |-> themes, current |-> current_theme,
   emits |-> theme_emits, last |-> theme_last]

\* A set_theme that does not look the name up.
set_theme_unchecked(M, theme_name) ==
  [ret |-> TRUE,
   M |-> [M EXCEPT !.current = theme_name, !.emits = @ + 1, !.last = theme_name]]

\* ThemeManager.set_theme(theme_name)
set_theme(M, theme_name) ==
  IF theme_name \in DOMAIN M.themes
  THEN [ret |-> TRUE,
        M |-> [M EXCEPT !.current = theme_name, !.emits = @ + 1,
                        !.last = theme_name]]
  ELSE [ret |-> FALSE, M |-> M]

\* ThemeManager.__init__ and MainWindow._apply_current_theme at start-up.
ThemeInit(loaded) ==
  /\ themes = [n \in loaded |-> ThemeData(n)]
  /\ current_theme = "dark"
  /\ theme_emits = 0
  /\ theme_last = None
  /\ stylesheet = get_theme_stylesheet(themes, "dark")

ThemeIdle ==
  ThemeInit({"dark", "light"})

\* ------------------------------------------------------------------------
\* SyntaxHighlighter
\* ------------------------------------------------------------------------

\* The names set_language is called with.
LanguageArgs ==
  {"Python", "py", "js", "go", "c++", "text", "nolang"}

\* str.lower()
str_lower(x) ==
  IF x = "Python" THEN "python" ELSE x

\* language_aliases.get(self.language, self.language)
language_aliases(l) ==
  CASE l = "py" -> "python"
    [] l = "js" -> "javascript"
    [] l = "c++" -> "cpp"
    [] OTHER -> l

\* The names get_lexer_by_name resolves; any other name raises.
LexerNames ==
  {"python", "javascript", "typescript", "html", "css", "c", "cpp", "csharp",
   "java", "php", "ruby", "go", "rust", "swift", "kotlin", "scala", "r",
   "matlab", "lua", "perl", "bash", "powershell", "batch", "sql", "xml",
   "json", "yaml", "toml", "ini", "markdown", "rst", "text", "dockerfile"}

\* The branch _highlight_with_regex takes for a language.
regex_rules(l) ==
  CASE l \in {"python", "py", "pyw"} -> "python"
    [] l \in {"javascript", "js"} -> "javascript"
    [] l \in {"cpp", "c++", "hpp", "cplusplus"} -> "cpp"
    [] OTHER -> "generic"

FormatKeys ==
  {"keyword", "string", "comment", "number", "function", "class",
   "operator", "builtin", "error", "decorator"}

\* SyntaxHighlighter._create_format(color, bold, italic)
create_format(color, bold, italic) ==
  [color |-> color, bold |-> bold, italic |-> italic]

\* The formats _init_formats builds (and the 'dark' branch of
\* set_color_scheme).
DarkFormats ==
  [keyword |-> create_format(<<86, 156, 214>>, TRUE, FALSE),
   string |-> create_format(<<206, 145, 120>>, FALSE, FALSE),
   comment |-> create_format(<<106, 153, 85>>, FALSE, TRUE),
   number |-> create_format(<<181, 206, 168>>, FALSE, FALSE),
   function |-> create_format(<<220, 220, 170>>, FALSE, FALSE),
   class |-> create_format(<<78, 201, 176>>, FALSE, FALSE),
   operator |-> create_format(<<212, 212, 212>>, FALSE, FALSE),
   builtin |-> create_format(<<86, 156, 214>>, FALSE, FALSE),
   error |-> create_format(<<244, 71, 71>>, FALSE, FALSE),
   decorator |-> create_format(<<255, 198, 109>>, FALSE, FALSE)]

\* The formats of the 'light' branch of set_color_scheme.
LightFormats ==
  [keyword |-> create_format(<<0, 0, 255>>, TRUE, FALSE),
   string |-> create_format(<<163, 21, 21>>, FALSE, FALSE),
   comment |-> create_format(<<0, 128, 0>>, FALSE, TRUE),
   number |-> create_format(<<9, 134, 88>>, FALSE, FALSE),
   function |-> create_format(<<121, 94, 38>>, FALSE, FALSE),
   class |-> create_format(<<43, 145, 175>>, FALSE, FALSE),
   operator |-> create_format(<<0, 0, 0>>, FALSE, FALSE),
   builtin |-> create_format(<<0, 0, 255>>, FALSE, FALSE),
   error |-> create_format(<<255, 0, 0>>, FALSE, FALSE),
   decorator |-> create_format(<<128, 128, 0>>, FALSE, FALSE)]

\* The highlighter's fields as one value.
Highlighter ==
  [available |-> pygments_available, language |-> language, lexer |-> lexer,
   formats |-> formats, token_formats |-> token_formats]

\* SyntaxHighlighter._init_formats(): the formats are built anew, and with
\* the lexer library the token mapping (token family -> format) from them.
init_formats(H) ==
  [H EXCEPT !.formats = DarkFormats,
            !.token_formats = IF H.available THEN DarkFormats ELSE @]

\* A set_language that keeps the lexer it had when none is resolved.
set_language_keeps_lexer(H, l) ==
  LET lexer_name == language_aliases(str_lower(l)) IN
    [H EXCEPT !.language = str_lower(l),
              !.lexer = IF H.available /\ lexer_name \in LexerNames
                        THEN lexer_name ELSE @]

\* SyntaxHighlighter.set_language(language)
set_language(H, l) ==
  LET lexer_name == language_aliases(str_lower(l)) IN
    [H EXCEPT !.language = str_lower(l),
              !.lexer = IF H.available
                        THEN (IF lexer_name \in LexerNames THEN lexer_name ELSE None)
                        ELSE @]

\* SyntaxHighlighter.set_color_scheme(scheme)
set_color_scheme(H, scheme) ==
  LET S == [H EXCEPT !.formats = IF scheme = "dark" THEN DarkFormats
                                 ELSE IF scheme = "light" THEN LightFormats
                                 ELSE @]
  IN IF S.available THEN init_formats(S) ELSE S

\* text.strip() is empty
is_blank(text) ==
  \A j \in 1..Len(text) : text[j] = " "

NotHighlighted ==
  [engine |-> "none", rules |-> "none"]

\* SyntaxHighlighter._highlight_with_regex(text)
highlight_with_regex(H) ==
  [engine |-> "regex", rules |-> regex_rules(H.language)]

\* SyntaxHighlighter._highlight_with_pygments(text); raises is get_tokens
\* raising for this block.
highlight_with_pygments(H, raises) ==
  IF raises THEN highlight_with_regex(H)
  ELSE [engine |-> "pygments", rules |-> H.lexer]

\* SyntaxHighlighter.highlightBlock(text); use_pygments is PYGMENTS_AVAILABLE.
highlightBlock(H, text, raises) ==
  IF is_blank(text) THEN NotHighlighted
  ELSE IF H.available /\ H.lexer # None THEN highlight_with_pygments(H, raises)
  ELSE highlight_with_regex(H)

\* SyntaxHighlighter.__init__
SyntaxInit(available) ==
  LET H == set_language(
             init_formats([available |-> available, language |-> "text",
                           lexer |-> None, formats |-> DarkFormats,
                           token_formats |-> <<>>]),
             "python")
  IN /\ pygments_available = available
     /\ language = H.language
     /\ lexer = H.lexer
     /\ formats = H.formats
     /\ token_formats = H.token_formats
     /\ hl_applied = NotHighlighted
     /\ detect_path = <<>>

SyntaxIdle ==
  SyntaxInit(TRUE)

\* ------------------------------------------------------------------------
\* TextEditor._detect_and_set_language
\* ------------------------------------------------------------------------

\* str.lower() on the characters of a path
LowerOf ==
  [A |-> "a", B |-> "b", C |-> "c", D |-> "d", E |-> "e", F |-> "f", G
  |-> "g", H |-> "h", I |-> "i", J |-> "j", K |-> "k", L |-> "l", M |->
  "m", N |-> "n", O |-> "o", P |-> "p", Q |-> "q", R |-> "r", S |-> "s",
  T |-> "t", U |-> "u", V |-> "v", W |-> "w", X |-> "x", Y |-> "y", Z
  |-> "z"]

char_lower(c) ==
  IF c \in DOMAIN LowerOf THEN LowerOf[c] ELSE c

seq_lower(x) ==
  [j \in 1..Len(x) |-> char_lower(x[j])]

\* p.rfind(c): the last position of c in p, 0 if there is none
rfind(p, c) ==
  IF \E j \in 1..Len(p) : p[j] = c
  THEN CHOOSE j \in 1..Len(p) : p[j] = c /\ \A h \in (j + 1)..Len(p) : p[h] # c
  ELSE 0

\* os.path.splitext(p)[1]: from the last dot of the last path component,
\* unless only dots precede it in that component.
splitext_ext(p) ==
  LET sepIndex == rfind(p, "/")
      dotIndex == rfind(p, ".")
  IN IF dotIndex > sepIndex
        /\ \E j \in (sepIndex + 1)..(dotIndex - 1) : p[j] # "."
     THEN SubSeq(p, dotIndex, Len(p))
     ELSE <<>>

\* language_map of _detect_and_set_language
language_map ==
  {[ext |-> <<".", "p", "y">>, lang |-> "python"],
   [ext |-> <<".", "p", "y", "w">>, lang |-> "python"],
   [ext |-> <<".", "p", "y", "x">>, lang |-> "python"],
   [ext |-> <<".", "j", "s">>, lang |-> "javascript"],
   [ext |-> <<".", "j", "s", "x">>, lang |-> "javascript"],
   [ext |-> <<".", "t", "s">>, lang |-> "typescript"],
   [ext |-> <<".", "t", "s", "x">>, lang |-> "typescript"],
   [ext |-> <<".", "h", "t", "m", "l">>, lang |-> "html"],
   [ext |-> <<".", "h", "t", "m">>, lang |-> "html"],
   [ext |-> <<".", "x", "h", "t", "m", "l">>, lang |-> "html"],
   [ext |-> <<".", "c", "s", "s">>, lang |-> "css"],
   [ext |-> <<".", "s", "c", "s", "s">>, lang |-> "css"],
   [ext |-> <<".", "s", "a", "s", "s">>, lang |-> "css"],
   [ext |-> <<".", "l", "e", "s", "s">>, lang |-> "css"],
   [ext |-> <<".", "c">>, lang |-> "c"],
   [ext |-> <<".", "h">>, lang |-> "c"],
   [ext |-> <<".", "c", "p", "p">>, lang |-> "cpp"],
   [ext |-> <<".", "c", "x", "x">>, lang |-> "cpp"],
   [ext |-> <<".", "c", "c">>, lang |-> "cpp"],
   [ext |-> <<".", "h", "p", "p">>, lang |-> "cpp"],
   [ext |-> <<".", "h", "x", "x">>, lang |-> "cpp"],
   [ext |-> <<".", "c", "s">>, lang |-> "csharp"],
   [ext |-> <<".", "j", "a", "v", "a">>, lang |-> "java"],
   [ext |-> <<".", "p", "h", "p">>, lang |-> "php"],
   [ext |-> <<".", "r", "b">>, lang |-> "ruby"],
   [ext |-> <<".", "g", "o">>, lang |-> "go"],
   [ext |-> <<".", "r", "s">>, lang |-> "rust"],
   [ext |-> <<".", "s", "w", "i", "f", "t">>, lang |-> "swift"],
   [ext |-> <<".", "k", "t">>, lang |-> "kotlin"],
   [ext |-> <<".", "s", "c", "a", "l", "a">>, lang |-> "scala"],
   [ext |-> <<".", "r">>, lang |-> "r"],
   [ext |-> <<".", "m">>, lang |-> "matlab"],
   [ext |-> <<".", "l", "u", "a">>, lang |-> "lua"],
   [ext |-> <<".", "p", "e", "r", "l">>, lang |-> "perl"],
   [ext |-> <<".", "p", "l">>, lang |-> "perl"],
   [ext |-> <<".", "s", "h">>, lang |-> "bash"],
   [ext |-> <<".", "b", "a", "s", "h">>, lang |-> "bash"],
   [ext |-> <<".", "z", "s", "h">>, lang |-> "bash"],
   [ext |-> <<".", "f", "i", "s", "h">>, lang |-> "bash"],
   [ext |-> <<".", "p", "s", "1">>, lang |-> "powershell"],
   [ext |-> <<".", "b", "a", "t">>, lang |-> "batch"],
   [ext |-> <<".", "c", "m", "d">>, lang |-> "batch"],
   [ext |-> <<".", "s", "q", "l">>, lang |-> "sql"],
   [ext |-> <<".", "x", "m", "l">>, lang |-> "xml"],
   [ext |-> <<".", "j", "s", "o", "n">>, lang |-> "json"],
   [ext |-> <<".", "y", "a", "m", "l">>, lang |-> "yaml"],
   [ext |-> <<".", "y", "m", "l">>, lang |-> "yaml"],
   [ext |-> <<".", "t", "o", "m", "l">>, lang |-> "toml"],
   [ext |-> <<".", "i", "n", "i">>, lang |-> "ini"],
   [ext |-> <<".", "c", "f", "g">>, lang |-> "ini"],
   [ext |-> <<".", "c", "o", "n", "f">>, lang |-> "ini"],
   [ext |-> <<".", "m", "d">>, lang |-> "markdown"],
   [ext |-> <<".", "m", "a", "r", "k", "d", "o", "w", "n">>, lang |-> "markdown"],
   [ext |-> <<".", "r", "s", "t">>, lang |-> "rst"],
   [ext |-> <<".", "t", "x", "t">>, lang |-> "text"],
   [ext |-> <<".", "d", "o", "c", "k", "e", "r", "f", "i", "l", "e">>, lang |-> "dockerfile"],
   [ext |-> <<".", "g", "i", "t", "i", "g", "n", "o", "r", "e">>, lang |-> "text"],
   [ext |-> <<".", "g", "i", "t", "a", "t", "t", "r", "i", "b", "u", "t", "e", "s">>, lang |-> "text"],
   [ext |-> <<".", "e", "d", "i", "t", "o", "r", "c", "o", "n", "f", "i", "g">>, lang |-> "ini"]}

\* language_map.get(ext, 'text')
language_map_get(ext) ==
  IF \E r \in language_map : r.ext = ext
  THEN (CHOOSE r \in language_map : r.ext = ext).lang
  ELSE "text"

\* A detection that does not lower the extension's letters.
detect_language_case_sensitive(file_path) ==
  language_map_get(splitext_ext(file_path))

\* The language _detect_and_set_language passes to set_language.
detect_language(file_path) ==
  language_map_get(seq_lower(splitext_ext(file_path)))

\* The components that are not exercised stay as constructed.
\* MainWindow.__init__: setGeometry(100, 100, 1200, 800); nothing was ever
\* stored.
WindowIdle ==
  /\ window_state = "normal"
  /\ settings_window_state = None

RestIdle ==
  /\ ThemeIdle
  /\ SyntaxIdle
  /\ WindowIdle
  /\ SearchIdle

\* ------------------------------------------------------------------------
\* Actions
\* ------------------------------------------------------------------------

NoOp ==
  [name |-> "init", reply |-> None]

\* One more handler has run.
Tick ==
  /\ nops < MaxOps
  /\ nops' = nops + 1

\* A handler of the tab manager or the main window's file menu runs: the
\* other components are not touched.
TabStep ==
  /\ Tick
  /\ UNCHANGED replaceVars
  /\ UNCHANGED i18nVars
  /\ UNCHANGED <<restVars, editVars>>

Commit(S) ==
  /\ tabs' = S.tabs
  /\ cur' = S.cur
  /\ editors' = S.editors
  /\ file_paths' = S.file_paths
  /\ ed' = S.ed
  /\ disk' = S.disk
  /\ announced' = S.announced

InitWith(contents) ==
  /\ tabs = <<>>
  /\ cur = -1
  /\ editors = <<>>
  /\ file_paths = <<>>
  /\ ed = [e \in EditorIds |-> NoEditorState]
  /\ disk \in [Paths -> {Missing} \cup {File(b) : b \in contents}]
  /\ announced = NoEditor
  /\ menu_actions = edit_menu_actions
  /\ toolbar_buttons = edit_toolbar_buttons
  /\ window = "open"
  /\ op = NoOp
  /\ ret = TRUE
  /\ nops = 0

\* No replace_all call is under way.
ReplaceIdle ==
  /\ doc = <<>>
  /\ doc0 = <<>>
  /\ args = [find_text |-> <<>>, replace_text |-> <<>>, case_sensitive |-> FALSE,
             whole_words |-> FALSE, regex |-> FALSE]
  /\ count_ret = -1

\* The i18n manager as built with the bundled files on a Chinese system.
I18nIdle ==
  LET files == [l \in LocaleCodes |-> IF l = "xx_XX" THEN "missing" ELSE "ok"]
      M == i18n_init(files, "zh_CN", None)
  IN /\ locale_files = files
     /\ system_locale = "zh_CN"
     /\ settings_language = M.settings
     /\ current_locale = M.current
     /\ translations = M.translations
     /\ emits = M.emits
     /\ last_emitted = M.last
     /\ menu_texts = create_menus(M.translations)
     /\ tr_call = [key |-> <<>>, kwargs |-> <<>>]
     /\ tr_ret = TrKey(<<>>)

Init ==
  /\ InitWith(PlainBytes)
  /\ ReplaceIdle
  /\ I18nIdle
  /\ RestIdle

\* MainWindow.open_file_from_path -> TabWidget.open_file
OpenFile(p) ==
  /\ window = "open"
  /\ TabStep
  /\ find_tab_by_file_path(State, p) # -1 \/ Len(tabs) < MaxTabs
  /\ LET r == open_file(State, p) IN
       /\ Commit(r.S)
       /\ ret' = r.ret
  /\ op' = [NoOp EXCEPT !.name = "open_file"]
  /\ UNCHANGED window

\* MainWindow.new_file: the dialog is cancelled (an empty untitled tab), or
\* accepted with a template content and, optionally, a path to save to at once.
NewFile(accepted, content, save_path, ok) ==
  /\ window = "open"
  /\ TabStep
  /\ Len(tabs) < MaxTabs
  /\ ~accepted => save_path = None
  /\ save_path = None => ok
  /\ LET n == new_tab(State, None, IF accepted THEN content ELSE <<>>)
         editor == get_current_editor(n.S)
     IN IF accepted /\ editor # NoEditor /\ save_path # None
        THEN LET w == save(set_file_path(n.S, editor, save_path), editor, None, ok)
             IN Commit(w.S) /\ ret' = w.ret
        ELSE Commit(n.S) /\ ret' = TRUE
  /\ op' = [NoOp EXCEPT !.name = "new_file",
                         !.reply = IF accepted THEN "Accepted" ELSE "Rejected"]
  /\ UNCHANGED window

\* MainWindow.save_file_as for the current editor; dlg is the path picked in
\* the dialog (None when cancelled).  ret is whether a save was reported.
save_file_as(S, dlg, ok) ==
  LET current_editor == get_current_editor(S) IN
    IF current_editor # NoEditor /\ dlg # None
    THEN save_as(S, current_editor, dlg, None, ok)
    ELSE [ret |-> FALSE, S |-> S]

\* MainWindow.save_file
save_file(S, dlg, ok) ==
  LET current_editor == get_current_editor(S) IN
    IF current_editor = NoEditor THEN [ret |-> FALSE, S |-> S]
    ELSE IF S.ed[current_editor].file_path = None THEN save_file_as(S, dlg, ok)
    ELSE save(S, current_editor, None, ok)

SaveFile(dlg, ok) ==
  /\ window = "open"
  /\ TabStep
  /\ LET e == get_current_editor(State) IN
       /\ e # NoEditor
       /\ ed[e].file_path # None => dlg = None
       /\ (ed[e].file_path = None /\ dlg = None) => ok
  /\ LET r == save_file(State, dlg, ok) IN
       /\ Commit(r.S)
       /\ ret' = r.ret
  /\ op' = [NoOp EXCEPT !.name = "save_file"]
  /\ UNCHANGED window

SaveFileAs(dlg, ok) ==
  /\ window = "open"
  /\ TabStep
  /\ get_current_editor(State) # NoEditor
  /\ dlg = None => ok
  /\ LET r == save_file_as(State, dlg, ok) IN
       /\ Commit(r.S)
       /\ ret' = r.ret
  /\ op' = [NoOp EXCEPT !.name = "save_file_as"]
  /\ UNCHANGED window

\* tabCloseRequested(index) -> TabWidget.close_tab(index); also called by
\* MainWindow.close_current_file and the context menu.
CloseTab(index, reply, dlg, ok) ==
  /\ window = "open"
  /\ TabStep
  /\ LET inRange == index >= 0 /\ index < Len(tabs)
         editor == DictGet(editors, index, NoEditor)
         asked == inRange /\ editor # NoEditor /\ ed[editor].modified
         picks == asked /\ reply = "Save" /\ ed[editor].file_path = None
         writes == asked /\ reply = "Save" /\ (~picks \/ dlg # None)
     IN /\ IF asked THEN reply \in {"Save", "Discard", "Cancel"} ELSE reply = None
        /\ ~picks => dlg = None
        /\ ~writes => ok
  /\ LET r == close_tab(State, index, reply, dlg, ok) IN
       /\ Commit(r.S)
       /\ ret' = r.ret
  /\ op' = [NoOp EXCEPT !.name = "close_tab", !.reply = reply]
  /\ UNCHANGED window

\* The user types in the editor of the tab that is shown.
EditText(t) ==
  /\ window = "open"
  /\ TabStep
  /\ cur >= 0
  /\ LET e == tabs[cur + 1] IN
       /\ ed[e].text # t
       /\ ed' = [ed EXCEPT ![e].text = t, ![e].modified = TRUE]
  /\ op' = [NoOp EXCEPT !.name = "edit"]
  /\ ret' = TRUE
  /\ UNCHANGED <<tabs, cur, editors, file_paths, disk, window, announced>>

\* The user clicks tab `index`.
SelectTab(index) ==
  /\ window = "open"
  /\ TabStep
  /\ index >= 0 /\ index < Len(tabs) /\ index # cur
  /\ Commit(setCurrentIndex(State, index))
  /\ op' = [NoOp EXCEPT !.name = "select"]
  /\ ret' = TRUE
  /\ UNCHANGED window

\* The user drags the current tab to position `to`; whether the tab bar
\* emits currentChanged for the new index of the dragged tab depends on the
\* Qt build.
MoveTab(to) ==
  /\ window = "open"
  /\ TabStep
  /\ cur >= 0 /\ to >= 0 /\ to < Len(tabs) /\ to # cur
  /\ \E notified \in BOOLEAN :
       Commit(IF notified THEN on_current_changed(moveTab(State, to), to)
              ELSE moveTab(State, to))
  /\ op' = [NoOp EXCEPT !.name = "move"]
  /\ ret' = TRUE
  /\ UNCHANGED window

\* MainWindow.closeEvent; reply answers "quit with unsaved changes?".
\* ret is whether the event was accepted.
CloseEvent(reply) ==
  /\ window = "open"
  /\ TabStep
  /\ IF has_unsaved_changes(State) THEN reply \in {"Yes", "No"} ELSE reply = None
  /\ IF has_unsaved_changes(State) /\ reply = "No"
     THEN window' = "open" /\ ret' = FALSE
     ELSE window' = "closed" /\ ret' = TRUE
  /\ op' = [NoOp EXCEPT !.name = "close_event", !.reply = reply]
  /\ UNCHANGED <<tabs, cur, editors, file_paths, ed, disk, announced>>

Replies ==
  {"Save", "Discard", "Cancel", "Yes", "No", None}

Next ==
  \/ \E p \in Paths : OpenFile(p)
  \/ \E accepted \in BOOLEAN, content \in TemplateTexts,
        save_path \in Paths \cup {None}, ok \in BOOLEAN :
        NewFile(accepted, content, save_path, ok)
  \/ \E dlg \in Paths \cup {None}, ok \in BOOLEAN : SaveFile(dlg, ok)
  \/ \E dlg \in Paths \cup {None}, ok \in BOOLEAN : SaveFileAs(dlg, ok)
  \/ \E index \in -1..MaxTabs, reply \in Replies,
        dlg \in Paths \cup {None}, ok \in BOOLEAN :
        CloseTab(index, reply, dlg, ok)
  \/ \E t \in EditTexts : EditText(t)
  \/ \E index \in 0..(MaxTabs - 1) : SelectTab(index)
  \/ \E to \in 0..(MaxTabs - 1) : MoveTab(to)
  \/ \E reply \in Replies : CloseEvent(reply)

Spec ==
  Init /\ [][Next]_vars

\* ------------------------------------------------------------------------
\* Opening files of every encoding
\* ------------------------------------------------------------------------

\* The files on disk hold ASCII, UTF-8, GBK-only or undecodable bytes.
InitOpen ==
  /\ InitWith(InitialBytes)
  /\ ReplaceIdle
  /\ I18nIdle
  /\ RestIdle

NextOpen ==
  \/ \E p \in Paths : OpenFile(p)
  \/ \E t \in EditTexts : EditText(t)
  \/ \E index \in 0..(MaxTabs - 1) : SelectTab(index)
  \/ \E index \in -1..MaxTabs, reply \in Replies,
        dlg \in Paths \cup {None}, ok \in BOOLEAN :
        CloseTab(index, reply, dlg, ok)

SpecOpen ==
  InitOpen /\ [][NextOpen]_vars

\* ------------------------------------------------------------------------
\* replace_all on every small document, search text and option combination
\* ------------------------------------------------------------------------

InitReplace ==
  /\ InitWith({})
  /\ doc \in Strings(MaxDocLen)
  /\ doc0 = doc
  /\ args \in [find_text : Strings(MaxFindLen), replace_text : ReplaceTexts,
               case_sensitive : BOOLEAN, whole_words : BOOLEAN, regex : BOOLEAN]
  /\ count_ret = -1
  /\ I18nIdle
  /\ RestIdle

\* SearchDialog._on_replace_all -> parent_editor.replace_all(...)
ReplaceAll ==
  /\ count_ret = -1
  /\ Tick
  /\ LET r == replace_all(doc, args) IN
       /\ doc' = r.doc
       /\ count_ret' = r.count
  /\ op' = [NoOp EXCEPT !.name = "replace_all"]
  /\ UNCHANGED <<tabVars, ret, doc0, args>>
  /\ UNCHANGED i18nVars
  /\ UNCHANGED <<restVars, editVars>>

NextReplace ==
  ReplaceAll

SpecReplace ==
  InitReplace /\ [][NextReplace]_vars

\* ------------------------------------------------------------------------
\* Language switching
\* ------------------------------------------------------------------------

\* The ja_JP file may be absent or unreadable; zh_CN and en_US are bundled.
LocaleFileSets ==
  {[l \in LocaleCodes |->
      IF l = "xx_XX" THEN "missing" ELSE IF l = "ja_JP" THEN j ELSE "ok"] :
     j \in {"ok", "missing", "corrupt"}}

TrKeys ==
  {<<"menu", "file", "title">>, <<"menu", "file">>, <<"menu">>,
   <<"menu", "language", "x">>, <<"nope">>,
   <<"message", "language_changed">>}

TrKwargs ==
  {<<>>, [language |-> "English"], [filename |-> "a.py"]}

I18nStep ==
  /\ Tick
  /\ UNCHANGED <<tabVars, ret>>
  /\ UNCHANGED replaceVars
  /\ UNCHANGED restVars

\* Stores the manager's fields.
CommitI18n(M) ==
  /\ settings_language' = M.settings
  /\ current_locale' = M.current
  /\ translations' = M.translations
  /\ emits' = M.emits
  /\ last_emitted' = M.last
  /\ UNCHANGED <<locale_files, system_locale>>

\* First start of the application: no saved language.
InitI18n ==
  /\ InitWith({})
  /\ ReplaceIdle
  /\ RestIdle
  /\ locale_files \in LocaleFileSets
  /\ system_locale \in SystemLocales
  /\ LET M == i18n_init(locale_files, system_locale, None) IN
       /\ settings_language = M.settings
       /\ current_locale = M.current
       /\ translations = M.translations
       /\ emits = M.emits
       /\ last_emitted = M.last
       /\ menu_texts = create_menus(M.translations)
  /\ tr_call = [key |-> <<>>, kwargs |-> <<>>]
  /\ tr_ret = TrKey(<<>>)

\* set_language(locale) while the main window is shown: the emission, if
\* any, runs MainWindow._on_language_changed and so refresh_ui.
SetLocale(locale) ==
  /\ I18nStep
  /\ LET M == set_locale(I18n, locale) IN
       /\ CommitI18n(M)
       /\ menu_texts' = IF M.emits # emits THEN create_menus(M.translations)
                        ELSE menu_texts
       /\ menu_actions' = IF M.emits # emits THEN refresh_ui(EditActions).menu
                          ELSE menu_actions
       /\ toolbar_buttons' = IF M.emits # emits THEN refresh_ui(EditActions).toolbar
                             ELSE toolbar_buttons
  /\ op' = [name |-> "set_locale", reply |-> locale]
  /\ UNCHANGED <<tr_call, tr_ret>>

\* LanguageMenu.on_language_action_triggered for the item of locale_code;
\* the menu lists the locales whose files could be read.
LanguageAction(locale_code) ==
  /\ locale_files[locale_code] = "ok"
  /\ locale_code # current_locale
  /\ I18nStep
  /\ LET M == set_locale(I18n, locale_code) IN
       /\ CommitI18n(M)
       /\ menu_texts' = create_menus(M.translations)
       /\ menu_actions' = refresh_ui(EditActions).menu
       /\ toolbar_buttons' = refresh_ui(EditActions).toolbar
  /\ op' = [name |-> "language_action", reply |-> locale_code]
  /\ UNCHANGED <<tr_call, tr_ret>>

\* A call of tr(key, **kwargs).
Tr(key, kwargs) ==
  /\ I18nStep
  /\ tr_call' = [key |-> key, kwargs |-> kwargs]
  /\ tr_ret' = tr(translations, key, kwargs)
  /\ op' = [name |-> "tr", reply |-> None]
  /\ UNCHANGED <<locale_files, system_locale, settings_language,
                 current_locale, translations, emits, last_emitted, menu_texts>>
  /\ UNCHANGED editVars

\* The application is closed and started again: a new manager is built from
\* the settings store and the window builds its menus.
Restart ==
  /\ I18nStep
  /\ LET M == i18n_init(locale_files, system_locale, settings_language) IN
       /\ CommitI18n(M)
       /\ menu_texts' = create_menus(M.translations)
       /\ menu_actions' = edit_menu_actions
       /\ toolbar_buttons' = edit_toolbar_buttons
  /\ op' = [name |-> "restart", reply |-> None]
  /\ UNCHANGED <<tr_call, tr_ret>>

NextI18n ==
  \/ \E locale \in LocaleCodes : SetLocale(locale)
  \/ \E locale_code \in LocaleCodes : LanguageAction(locale_code)
  \/ \E key \in TrKeys, kwargs \in TrKwargs : Tr(key, kwargs)
  \/ Restart

SpecI18n ==
  InitI18n /\ [][NextI18n]_vars

\* ------------------------------------------------------------------------
\* Theme switching
\* ------------------------------------------------------------------------

ThemeStep ==
  /\ Tick
  /\ UNCHANGED tabVars
  /\ UNCHANGED replaceVars
  /\ UNCHANGED i18nVars
  /\ UNCHANGED syntaxVars
  /\ UNCHANGED <<windowVars, searchVars>>
  /\ UNCHANGED menu_actions

CommitTheme(M) ==
  /\ current_theme' = M.current
  /\ theme_emits' = M.emits
  /\ theme_last' = M.last
  /\ UNCHANGED themes

InitTheme ==
  /\ InitWith({})
  /\ ReplaceIdle
  /\ I18nIdle
  /\ \E loaded \in LoadedThemeSets : ThemeInit(loaded)
  /\ SyntaxIdle
  /\ WindowIdle
  /\ SearchIdle

\* ThemeManager.set_theme(theme_name) called on the manager; the slot the
\* main window connected to theme_changed builds a new toolbar and does not
\* set the window stylesheet.
SetTheme(theme_name) ==
  /\ ThemeStep
  /\ LET r == set_theme(Theme, theme_name) IN
       /\ CommitTheme(r.M)
       /\ ret' = r.ret
       /\ toolbar_buttons' = IF r.ret THEN recreate_toolbar(EditActions).toolbar
                             ELSE toolbar_buttons
  /\ op' = [name |-> "set_theme", reply |-> theme_name]
  /\ UNCHANGED stylesheet

\* MainWindow._change_theme(theme_name)
ChangeTheme(theme_name) ==
  /\ ThemeStep
  /\ LET r == set_theme(Theme, theme_name) IN
       /\ CommitTheme(r.M)
       /\ ret' = r.ret
       /\ stylesheet' = IF r.ret
                        THEN get_theme_stylesheet(r.M.themes, r.M.current)
                        ELSE stylesheet
       /\ toolbar_buttons' = IF r.ret THEN recreate_toolbar(EditActions).toolbar
                             ELSE toolbar_buttons
  /\ op' = [name |-> "change_theme", reply |-> theme_name]

NextTheme ==
  \/ \E theme_name \in ThemeArgs : SetTheme(theme_name)
  \/ \E theme_name \in ThemeArgs : ChangeTheme(theme_name)

SpecTheme ==
  InitTheme /\ [][NextTheme]_vars

\* ------------------------------------------------------------------------
\* Syntax highlighting
\* ------------------------------------------------------------------------

BlockTexts ==
  {<<>>, <<" ", " ">>, <<"x", " ", "1">>}

SchemeArgs ==
  {"dark", "light", "solarized"}

SyntaxStep ==
  /\ Tick
  /\ UNCHANGED <<tabVars, ret>>
  /\ UNCHANGED replaceVars
  /\ UNCHANGED i18nVars
  /\ UNCHANGED themeVars
  /\ UNCHANGED <<windowVars, searchVars, editVars>>

CommitSyntax(H) ==
  /\ language' = H.language
  /\ lexer' = H.lexer
  /\ formats' = H.formats
  /\ token_formats' = H.token_formats
  /\ UNCHANGED pygments_available

\* A highlighter is built, with or without the lexer library installed.
InitSyntax ==
  /\ InitWith({})
  /\ ReplaceIdle
  /\ I18nIdle
  /\ ThemeIdle
  /\ WindowIdle
  /\ SearchIdle
  /\ \E available \in BOOLEAN : SyntaxInit(available)

SetLanguage(l) ==
  /\ SyntaxStep
  /\ CommitSyntax(set_language(Highlighter, l))
  /\ op' = [name |-> "set_language", reply |-> l]
  /\ UNCHANGED <<hl_applied, detect_path>>

\* Qt calls highlightBlock for a block of the document.
HighlightBlock(text, raises) ==
  /\ SyntaxStep
  /\ is_blank(text) => ~raises
  /\ hl_applied' = highlightBlock(Highlighter, text, raises)
  /\ op' = [name |-> "highlight_block",
            reply |-> IF is_blank(text) THEN "blank"
                      ELSE IF raises THEN "raises" ELSE "code"]
  /\ UNCHANGED <<pygments_available, language, lexer, formats, token_formats,
                 detect_path>>

SetColorScheme(scheme) ==
  /\ SyntaxStep
  /\ CommitSyntax(set_color_scheme(Highlighter, scheme))
  /\ op' = [name |-> "set_color_scheme", reply |-> scheme]
  /\ UNCHANGED <<hl_applied, detect_path>>

NextSyntax ==
  \/ \E l \in LanguageArgs : SetLanguage(l)
  \/ \E text \in BlockTexts, raises \in BOOLEAN : HighlightBlock(text, raises)
  \/ \E scheme \in SchemeArgs : SetColorScheme(scheme)

SpecSyntax ==
  InitSyntax /\ [][NextSyntax]_vars

\* ------------------------------------------------------------------------
\* Language detection
\* ------------------------------------------------------------------------

\* The table of tests/test_syntax_highlighting.py::test_language_detection.
test_extensions ==
  {[ext |-> <<".", "p", "y">>, lang |-> "python"],
   [ext |-> <<".", "j", "s">>, lang |-> "javascript"],
   [ext |-> <<".", "t", "s">>, lang |-> "typescript"],
   [ext |-> <<".", "j", "a", "v", "a">>, lang |-> "java"],
   [ext |-> <<".", "c", "p", "p">>, lang |-> "cpp"],
   [ext |-> <<".", "c", "s">>, lang |-> "csharp"],
   [ext |-> <<".", "g", "o">>, lang |-> "go"],
   [ext |-> <<".", "r", "s">>, lang |-> "rust"],
   [ext |-> <<".", "p", "h", "p">>, lang |-> "php"],
   [ext |-> <<".", "r", "b">>, lang |-> "ruby"],
   [ext |-> <<".", "h", "t", "m", "l">>, lang |-> "html"],
   [ext |-> <<".", "c", "s", "s">>, lang |-> "css"],
   [ext |-> <<".", "j", "s", "o", "n">>, lang |-> "json"],
   [ext |-> <<".", "x", "m", "l">>, lang |-> "xml"],
   [ext |-> <<".", "m", "d">>, lang |-> "markdown"],
   [ext |-> <<".", "s", "q", "l">>, lang |-> "sql"],
   [ext |-> <<".", "s", "h">>, lang |-> "bash"],
   [ext |-> <<".", "y", "a", "m", "l">>, lang |-> "yaml"]}

\* An extension in capitals.
seq_upper(x) ==
  [j \in 1..Len(x) |->
     IF \E u \in DOMAIN LowerOf : LowerOf[u] = x[j]
     THEN CHOOSE u \in DOMAIN LowerOf : LowerOf[u] = x[j]
     ELSE x[j]]

\* Extensions language_map does not list, and no extension.
UnknownExts ==
  {<<".", "z", "z">>, <<".", "p", "y", "c">>, <<>>}

\* File names without the extension: a plain name, a name in a directory
\* with a dot, a name with two dots, and no name (a dot file).
Stems ==
  {<<"t">>, <<"d", ".", "p", "y", "/", "t">>, <<"t", ".", "j", "s">>, <<>>}

DetectPaths ==
  {stem \o e : stem \in Stems,
               e \in {r.ext : r \in language_map} \cup
                     {seq_upper(r.ext) : r \in language_map} \cup UnknownExts}

\* TextEditor.set_file_path(file_path) on an editor of its own: the
\* language is detected and handed to the highlighter.
DetectLanguage(file_path) ==
  /\ SyntaxStep
  /\ file_path # <<>>
  /\ detect_path' = file_path
  /\ CommitSyntax(set_language(Highlighter, detect_language(file_path)))
  /\ op' = [name |-> "detect_language", reply |-> None]
  /\ UNCHANGED hl_applied

NextDetect ==
  \E file_path \in DetectPaths : DetectLanguage(file_path)

SpecDetect ==
  InitSyntax /\ [][NextDetect]_vars

\* ------------------------------------------------------------------------
\* Closing the window
\* ------------------------------------------------------------------------

WindowStates ==
  {"normal", "maximized"}

\* The user maximizes or restores the window.
ResizeWindow(state) ==
  /\ window = "open"
  /\ Tick
  /\ state # window_state
  /\ window_state' = state
  /\ op' = [name |-> "resize", reply |-> state]
  /\ UNCHANGED <<tabVars, ret, settings_window_state>>
  /\ UNCHANGED replaceVars
  /\ UNCHANGED i18nVars
  /\ UNCHANGED <<themeVars, syntaxVars, searchVars, editVars>>

NextClose ==
  \/ \E p \in Paths : OpenFile(p)
  \/ \E t \in EditTexts : EditText(t)
  \/ \E state \in WindowStates : ResizeWindow(state)
  \/ \E reply \in Replies : CloseEvent(reply)

SpecClose ==
  Init /\ [][NextClose]_vars

\* ------------------------------------------------------------------------
\* The tab manager without tab dragging
\* ------------------------------------------------------------------------

NextFiles ==
  \/ \E p \in Paths : OpenFile(p)
  \/ \E accepted \in BOOLEAN, content \in TemplateTexts,
        save_path \in Paths \cup {None}, ok \in BOOLEAN :
        NewFile(accepted, content, save_path, ok)
  \/ \E dlg \in Paths \cup {None}, ok \in BOOLEAN : SaveFile(dlg, ok)
  \/ \E dlg \in Paths \cup {None}, ok \in BOOLEAN : SaveFileAs(dlg, ok)
  \/ \E index \in -1..MaxTabs, reply \in Replies,
        dlg \in Paths \cup {None}, ok \in BOOLEAN :
        CloseTab(index, reply, dlg, ok)
  \/ \E t \in EditTexts : EditText(t)
  \/ \E index \in 0..(MaxTabs - 1) : SelectTab(index)

SpecFiles ==
  Init /\ [][NextFiles]_vars

\* ------------------------------------------------------------------------
\* The search dialog
\* ------------------------------------------------------------------------

\* A slot of the dialog runs: the tab manager and the other components are
\* not touched (the dialog is modal).
SearchStep ==
  /\ dialog_alive
  /\ Tick
  /\ ret' = TRUE
  /\ UNCHANGED tabVars
  /\ UNCHANGED i18nVars
  /\ UNCHANGED <<themeVars, syntaxVars, windowVars, editVars>>

CommitSearch(D) ==
  /\ doc' = D.doc
  /\ find_input' = D.find_input
  /\ replace_input' = D.replace_input
  /\ dialog_tab' = D.tab
  /\ case_sensitive_cb' = D.case_sensitive
  /\ whole_words_cb' = D.whole_words
  /\ regex_cb' = D.regex
  /\ current_matches' = D.current_matches
  /\ current_match_index' = D.current_match_index
  /\ last_search_text' = D.last_search_text
  /\ stats_label' = D.stats
  /\ dialog_alive' = D.alive

\* Documents the dialog is opened on: none to three matches of the search
\* texts, overlapping ones, both letter cases, word boundaries and '.'.
SearchDocs ==
  {<<>>, <<"a">>, <<"a", "a">>, <<"a", "a", "a">>, <<"a", " ", "A">>,
   <<"A", "a", " ">>, <<".", "a", ".">>, <<"a", ".", "A">>}

\* Texts the user types into the search input.
SearchTexts ==
  {<<>>, <<"a">>, <<"A">>, <<"a", "a">>, <<".">>, <<"a", " ">>}

\* The dialog opens on an editor that holds one of the documents.
InitSearch ==
  /\ InitWith({})
  /\ doc \in SearchDocs
  /\ doc0 = doc
  /\ args = [find_text |-> <<>>, replace_text |-> <<>>, case_sensitive |-> FALSE,
             whole_words |-> FALSE, regex |-> FALSE]
  /\ count_ret = -1
  /\ I18nIdle
  /\ RestIdle

\* The user edits the search input.
EditSearchText(text) ==
  /\ SearchStep
  /\ text # find_input
  /\ CommitSearch(on_search_text_changed(Dialog, text))
  /\ op' = [NoOp EXCEPT !.name = "search_text"]
  /\ UNCHANGED <<doc0, args, count_ret>>

\* The user edits the replace input (no slot is connected).
EditReplaceText(text) ==
  /\ SearchStep
  /\ text # replace_input
  /\ CommitSearch([Dialog EXCEPT !.replace_input = text])
  /\ op' = [NoOp EXCEPT !.name = "replace_text"]
  /\ UNCHANGED <<doc0, args, count_ret>>

\* The user toggles one of the option check boxes.
ToggleOption(option) ==
  /\ SearchStep
  /\ CommitSearch(on_options_changed(
       CASE option = "case_sensitive" -> [Dialog EXCEPT !.case_sensitive = ~@]
         [] option = "whole_words" -> [Dialog EXCEPT !.whole_words = ~@]
         [] option = "regex" -> [Dialog EXCEPT !.regex = ~@]))
  /\ op' = [NoOp EXCEPT !.name = "option", !.reply = option]
  /\ UNCHANGED <<doc0, args, count_ret>>

\* The user switches between the find and the replace tab
\* (_on_tab_changed: the inputs are already equal).
SwitchDialogTab ==
  /\ SearchStep
  /\ CommitSearch([Dialog EXCEPT !.tab = 1 - @])
  /\ op' = [NoOp EXCEPT !.name = "dialog_tab"]
  /\ UNCHANGED <<doc0, args, count_ret>>

FindAll ==
  /\ SearchStep
  /\ CommitSearch(on_find_all(Dialog))
  /\ op' = [NoOp EXCEPT !.name = "find_all"]
  /\ UNCHANGED <<doc0, args, count_ret>>

FindNext(reply) ==
  /\ SearchStep
  /\ IF find_next_asks(Dialog) THEN reply \in {"Yes", "No"} ELSE reply = None
  /\ CommitSearch(on_find_next(Dialog, reply))
  /\ op' = [NoOp EXCEPT !.name = "find_next", !.reply = reply]
  /\ UNCHANGED <<doc0, args, count_ret>>

FindPrevious(reply) ==
  /\ SearchStep
  /\ IF find_previous_asks(Dialog) THEN reply \in {"Yes", "No"} ELSE reply = None
  /\ CommitSearch(on_find_previous(Dialog, reply))
  /\ op' = [NoOp EXCEPT !.name = "find_previous", !.reply = reply]
  /\ UNCHANGED <<doc0, args, count_ret>>

ReplaceCurrent ==
  /\ SearchStep
  /\ CommitSearch(on_replace_current(Dialog))
  /\ op' = [NoOp EXCEPT !.name = "replace"]
  /\ UNCHANGED <<doc0, args, count_ret>>

\* Replace All: doc0, args and count_ret keep the call the dialog made to
\* the editor's replace_all.
ReplaceAllClicked ==
  /\ SearchStep
  /\ CommitSearch(on_replace_all(Dialog))
  /\ op' = [NoOp EXCEPT !.name = "replace_all"]
  /\ IF dialog_tab = 1 /\ find_input # <<>>
     THEN /\ doc0' = doc
          /\ args' = replace_all_args(Dialog)
          /\ count_ret' = replace_all(doc, replace_all_args(Dialog)).count
     ELSE UNCHANGED <<doc0, args, count_ret>>

OptionNames ==
  {"case_sensitive", "whole_words", "regex"}

NextSearch ==
  \/ \E text \in SearchTexts : EditSearchText(text)
  \/ \E text \in ReplaceTexts : EditReplaceText(text)
  \/ \E option \in OptionNames : ToggleOption(option)
  \/ SwitchDialogTab
  \/ FindAll
  \/ \E reply \in Replies : FindNext(reply)
  \/ \E reply \in Replies : FindPrevious(reply)
  \/ ReplaceCurrent
  \/ ReplaceAllClicked

SpecSearch ==
  InitSearch /\ [][NextSearch]_vars

\* ------------------------------------------------------------------------
\* The main window's edit actions while tabs open and close
\* ------------------------------------------------------------------------

\* What the slots read from outside the model when they run: the user
\* neither selects text nor undoes here, the clipboard holds text or not,
\* and the document reports undo as available or not.
EditEnvs ==
  [selection : {FALSE}, clipboard : BOOLEAN, undo : BOOLEAN, redo : {FALSE}]

\* A handler of the tab manager runs with the main window connected to
\* current_editor_changed.
WindowStep ==
  /\ window = "open"
  /\ Tick
  /\ UNCHANGED window
  /\ UNCHANGED replaceVars
  /\ UNCHANGED i18nVars
  /\ UNCHANGED restVars

\* The tab manager's state after the handler, and the edit actions after
\* the slot of its last current_editor_changed emission, if it emitted.
CommitShown(S, env) ==
  /\ Commit(S)
  /\ LET W == IF S.emitted
              THEN on_editor_changed(EditActions, S.announced, S.shown, env)
              ELSE EditActions
     IN /\ menu_actions' = W.menu
        /\ toolbar_buttons' = W.toolbar

\* MainWindow.open_file_from_path(p)
ShowFile(p, env) ==
  /\ WindowStep
  /\ find_tab_by_file_path(State, p) # -1 \/ Len(tabs) < MaxTabs
  /\ LET r == open_file(State, p) IN
       /\ CommitShown(r.S, env)
       /\ ret' = r.ret
  /\ op' = [NoOp EXCEPT !.name = "open_file"]

\* The close button of tab `index`; reply answers the unsaved-changes
\* question, where a save without a path is cancelled in the file dialog.
CloseShown(index, reply, env) ==
  /\ WindowStep
  /\ LET editor == DictGet(editors, index, NoEditor)
         asked == /\ index >= 0 /\ index < Len(tabs)
                  /\ editor # NoEditor /\ ed[editor].modified
     IN IF asked THEN reply \in {"Save", "Discard", "Cancel"} ELSE reply = None
  /\ LET r == close_tab(State, index, reply, None, TRUE) IN
       /\ CommitShown(r.S, env)
       /\ ret' = r.ret
  /\ op' = [NoOp EXCEPT !.name = "close_tab", !.reply = reply]

\* The user clicks tab `index`.
SelectShown(index, env) ==
  /\ WindowStep
  /\ index >= 0 /\ index < Len(tabs) /\ index # cur
  /\ CommitShown(setCurrentIndex(State, index), env)
  /\ op' = [NoOp EXCEPT !.name = "select"]
  /\ ret' = TRUE

\* The user types in the editor of the tab that is shown: textChanged runs
\* _update_edit_actions, and undoAvailable, if emitted, _update_undo_action.
TypeText(t, env) ==
  /\ WindowStep
  /\ cur >= 0
  /\ LET e == tabs[cur + 1] IN
       /\ ed[e].text # t
       /\ ed' = [ed EXCEPT ![e].text = t, ![e].modified = TRUE]
  /\ LET U == update_edit_actions(EditActions, get_current_editor(State), env)
         W == IF env.undo THEN update_undo_action(U, TRUE) ELSE U
     IN /\ menu_actions' = W.menu
        /\ toolbar_buttons' = W.toolbar
  /\ op' = [NoOp EXCEPT !.name = "edit"]
  /\ ret' = TRUE
  /\ UNCHANGED <<tabs, cur, editors, file_paths, disk, announced>>

NextEdit ==
  \/ \E p \in Paths, env \in EditEnvs : ShowFile(p, env)
  \/ \E index \in 0..(MaxTabs - 1), reply \in Replies, env \in EditEnvs :
       CloseShown(index, reply, env)
  \/ \E index \in 0..(MaxTabs - 1), env \in EditEnvs : SelectShown(index, env)
  \/ \E t \in EditTexts, env \in EditEnvs : TypeText(t, env)
  \/ \E theme_name \in ThemeArgs : ChangeTheme(theme_name)
  \/ \E locale_code \in LocaleCodes : LanguageAction(locale_code)

SpecEdit ==
  Init /\ [][NextEdit]_vars

\* ------------------------------------------------------------------------
\* Claims
\* ------------------------------------------------------------------------

\* The editor shown in tab `index` (QTabWidget.widget(index)).
widget(index) ==
  tabs[index + 1]

\* The paths of the open tabs' editors, one entry per tab.
OpenPaths ==
  [j \in 1..Len(tabs) |-> ed[tabs[j]].file_path]

\* C1: no file path is held by more than one open tab, neither in the
\* file_paths map nor among the editors of the open tabs.
C1_NoPathInTwoTabs ==
  /\ \A i, j \in 1..Len(file_paths) :
       (i # j /\ file_paths[i].v # None) => file_paths[i].v # file_paths[j].v
  /\ \A i, j \in 1..Len(tabs) :
       (i # j /\ OpenPaths[i] # None) => OpenPaths[i] # OpenPaths[j]

\* C2: open_file(p), when p is already the file path of an open tab, creates
\* no tab, reads nothing into any editor, makes the tab of p current and
\* returns True.
C2_OpenFileOfOpenPathSelectsIt ==
  [][\A p \in Paths :
       (OpenFile(p) /\ \E j \in 1..Len(tabs) : OpenPaths[j] = p)
       => /\ ret' = TRUE
          /\ tabs' = tabs
          /\ ed' = ed
          /\ cur' >= 0
          /\ ed'[tabs'[cur' + 1]].file_path = p]_vars

\* C3: close_tab(i) removes a tab with unsaved changes only on Discard or on
\* Save with a successful save; on Cancel or a failed or cancelled save it
\* returns False and tabs, editors and file_paths are as before; an index
\* outside 0..count()-1 returns False and changes nothing.
C3_CloseTabKeepsUnsavedChanges ==
  [][\A index \in -1..MaxTabs, reply \in Replies,
        dlg \in Paths \cup {None}, ok \in BOOLEAN :
       CloseTab(index, reply, dlg, ok) =>
         IF index < 0 \/ index >= Len(tabs)
         THEN ret' = FALSE /\ UNCHANGED <<tabs, cur, editors, file_paths, ed, disk>>
         ELSE ed[widget(index)].modified =>
           LET e == widget(index)
               path == IF ed[e].file_path # None THEN ed[e].file_path ELSE dlg
               saved == /\ reply = "Save" /\ ok /\ path # None
                        /\ disk'[path] = File(Utf8Encode(ed[e].text))
           IN /\ Len(tabs') < Len(tabs) => (reply = "Discard" \/ saved)
              /\ (reply = "Cancel" \/ (reply = "Save" /\ ~saved))
                   => /\ ret' = FALSE
                      /\ UNCHANGED <<tabs, editors, file_paths>>]_vars

\* C5: a file that is not open yet is decoded as UTF-8, as GBK only when
\* UTF-8 fails; when both fail or the file does not exist open_file returns
\* False and tabs, editors and file_paths are unchanged; on success the new
\* tab is current, holds the file's text and is unmodified.
C5_OpenFileDecodesOrLeavesTabs ==
  [][\A p \in Paths :
       (OpenFile(p) /\ \A j \in 1..Len(file_paths) : file_paths[j].v # p) =>
         LET u == Utf8Decode(disk[p].bytes)
             g == GbkDecode(disk[p].bytes)
         IN IF disk[p].exists /\ (u.ok \/ g.ok)
            THEN /\ ret' = TRUE
                 /\ Len(tabs') = Len(tabs) + 1
                 /\ cur' = Len(tabs)
                 /\ ed'[tabs'[cur' + 1]] =
                      [file_path |-> p, modified |-> FALSE,
                       text |-> IF u.ok THEN u.text ELSE g.text,
                       index |-> Len(tabs)]
                 /\ \A j \in 1..Len(tabs) : tabs'[j] = tabs[j] /\ ed'[tabs[j]] = ed[tabs[j]]
            ELSE /\ ret' = FALSE
                 /\ UNCHANGED <<tabs, cur, editors, file_paths, ed>>]_vars

\* A file only GBK can decode has been opened.
C5_GbkFallbackOpened ==
  /\ op.name = "open_file" /\ ret /\ cur >= 0
  /\ disk["a"] = File(<<195, 65>>)
  /\ ed[widget(cur)].text = GbkDecode(<<195, 65>>).text
  /\ ed[widget(cur)].file_path = "a"

\* An undecodable file was refused while another tab was open.
C5_UndecodableRefused ==
  /\ op.name = "open_file" /\ ~ret /\ Len(tabs) = 1
  /\ disk["b"] = File(<<255>>)

\* C6: the window closes only when no open editor has unsaved changes or the
\* user confirmed; when the user declines, the event is ignored and every
\* tab, its content and its modified flag stay as they were.
C6_CloseEventProtectsUnsavedChanges ==
  [][\A reply \in Replies :
       CloseEvent(reply) =>
         /\ window' = "closed" =>
              (reply = "Yes" \/ \A j \in 1..Len(tabs) : ~ed[tabs[j]].modified)
         /\ reply = "No" =>
              /\ window' = "open" /\ ret' = FALSE
              /\ UNCHANGED <<tabs, cur, editors, file_paths, ed, disk>>]_vars

\* The user declined to quit while a tab that is not current was modified.
C6_DeclinedWithUnsavedChanges ==
  /\ op.name = "close_event" /\ op.reply = "No" /\ window = "open"
  /\ \E j \in 1..Len(tabs) : j # cur + 1 /\ ed[tabs[j]].modified

\* C7: saving an editor without a file path writes no file unless the user
\* supplies a path, and a cancelled dialog reports failure and leaves the
\* editor without a path and its modified flag as it was; saving an editor
\* with a path writes to that path only.
C7_SaveWithoutPathGoesThroughSaveAs ==
  [][(\A dlg \in Paths \cup {None}, ok \in BOOLEAN :
        (op'.name = "save_file" /\ SaveFile(dlg, ok)) =>
          LET e == get_current_editor(State) IN
            IF ed[e].file_path = None
            THEN /\ \A p \in Paths : disk'[p] # disk[p] => p = dlg
                 /\ dlg = None => ret' = FALSE /\ ed' = ed /\ disk' = disk
            ELSE /\ \A p \in Paths : disk'[p] # disk[p] => p = ed[e].file_path
                 /\ ok => /\ ret' = TRUE
                          /\ disk'[ed[e].file_path] = File(Utf8Encode(ed[e].text)))
     /\
     (\A i \in 0..(MaxTabs - 1), d \in Paths \cup {None}, w \in BOOLEAN :
        (op'.reply = "Save" /\ CloseTab(i, "Save", d, w)) =>
          LET e == DictGet(editors, i, NoEditor) IN
            IF ed[e].file_path = None
            THEN /\ \A p \in Paths : disk'[p] # disk[p] => p = d
                 /\ d = None => ret' = FALSE /\ ed' = ed /\ disk' = disk
            ELSE \A p \in Paths : disk'[p] # disk[p] => p = ed[e].file_path)]_vars

\* A save of a modified editor without a path was cancelled in the dialog.
C7_SaveCancelled ==
  /\ op.name \in {"save_file", "close_tab"} /\ ~ret
  /\ op.name = "close_tab" => op.reply = "Save"
  /\ cur >= 0 /\ get_current_editor(State) # NoEditor
  /\ ed[get_current_editor(State)].file_path = None
  /\ ed[get_current_editor(State)].modified

\* The matches of the search in text: the leftmost non-overlapping matches
\* of the search text read as a regular expression (regex), or read literally
\* and, with whole_words, only between word boundaries; letter case is
\* ignored unless case_sensitive.
SearchMatches(text, a) ==
  IF a.find_text = <<>> THEN <<>>
  ELSE IF a.regex
    THEN finditer(compile(a.find_text, FALSE), ~a.case_sensitive, FALSE, text, 0)
  ELSE finditer(compile(a.find_text, TRUE), ~a.case_sensitive, a.whole_words, text, 0)

ReplaceAllCorrect ==
  LET matches == SearchMatches(doc0, args)
      m == Len(args.find_text)
  IN /\ count_ret = Len(matches)
     /\ doc = substitute(doc0, matches, m, args.replace_text, 0)
     /\ (~args.regex /\ ~args.whole_words /\ ~args.case_sensitive)
          => replace_reversed(doc0, matches, m, args.replace_text)
               = substitute(doc0, matches, m, args.replace_text, 0)

\* C4: replace_all returns the number n of non-overlapping matches and, for
\* every combination of case_sensitive, whole_words and regex, leaves the
\* document equal to the original text with each of the n matches replaced
\* (unchanged, with 0 returned, for an empty search text or no match); in
\* the case-insensitive plain mode replacing last-to-first equals replacing
\* left to right.
C4_ReplaceAllReplacesEveryMatch ==
  count_ret # -1 => ReplaceAllCorrect

\* The same statement for every option combination except the plain
\* case-sensitive one (regex = whole_words = FALSE, case_sensitive = TRUE).
C4_HoldsOutsidePlainCaseSensitive ==
  (count_ret # -1 /\ (args.regex \/ args.whole_words \/ ~args.case_sensitive))
    => ReplaceAllCorrect

\* The count is right in every mode, also where the document is not updated.
C4_CountIsRight ==
  count_ret # -1 => count_ret = Len(SearchMatches(doc0, args))

\* The value stored at the dotted key path is a translated text.
LeadsToText(tree, key) ==
  walk(tree, key).ok /\ walk(tree, key).value.kind = "str"

\* C8: tr(key, **kwargs) returns the text stored at the key path, with the
\* kwargs substituted when given, or, when the path does not lead to a
\* translated text, the key itself.
C8_TrReturnsTextOrKey ==
  op.name = "tr" =>
    IF LeadsToText(translations, tr_call.key)
    THEN \/ tr_ret.kind = "text"
         \/ tr_ret = TrKey(tr_call.key) /\ DOMAIN tr_call.kwargs # {}
    ELSE tr_ret = TrKey(tr_call.key)

\* What does hold of tr: a path that ends at a subtree gives the subtree's
\* str(), every other miss gives the key.
C8_TrReturnsTextKeyOrRepr ==
  op.name = "tr" =>
    /\ tr_ret.kind = "text" => LeadsToText(translations, tr_call.key)
    /\ tr_ret.kind = "repr" =>
         /\ walk(translations, tr_call.key).ok
         /\ walk(translations, tr_call.key).value.kind = "dict"
    /\ tr_ret.kind = "key" => tr_ret.key = tr_call.key

\* C9: every change of the current locale made by set_locale is followed by
\* one emission of language_changed carrying the new current locale, and
\* the menu bar and toolbar are rebuilt with that locale's texts.
C9_LocaleChangeEmitsAndRebuilds ==
  [][(\E l \in LocaleCodes : SetLocale(l) \/ LanguageAction(l))
        /\ current_locale' # current_locale
      => /\ emits' = emits + 1
         /\ last_emitted' = current_locale'
         /\ menu_texts' = create_menus(LocaleTree(current_locale'))]_vars

\* C10: the 'language' value in the settings store equals the manager's
\* current locale, so a restart restores the language in effect.
C10_SettingsEqualCurrentLocale ==
  settings_language = current_locale

\* A restart consults the settings only, so it restores what they hold.
C10_RestartRestoresSavedLocale ==
  [][Restart /\ locale_files[settings_language] = "ok"
       => current_locale' = settings_language]_vars

\* C11: set_theme(name) returns True, makes name current and emits
\* theme_changed(name) exactly when name is a loaded theme; otherwise it
\* returns False, leaves current_theme and emits nothing.  After a switch
\* through the main window the window stylesheet is the one generated from
\* the new theme.
C11_SetThemeIffLoaded ==
  [][\A name \in ThemeArgs :
       (SetTheme(name) \/ ChangeTheme(name)) =>
         IF name \in DOMAIN themes
         THEN /\ ret' = TRUE
              /\ current_theme' = name
              /\ theme_emits' = theme_emits + 1
              /\ theme_last' = name
              /\ ChangeTheme(name) =>
                   stylesheet' =
                     <<colors_get(themes[name].colors, "background", "#2b2b2b"),
                       colors_get(themes[name].colors, "foreground", "#ffffff")>>
         ELSE /\ ret' = FALSE
              /\ current_theme' = current_theme
              /\ theme_emits' = theme_emits
              /\ theme_last' = theme_last]_vars

\* The window switched to the light theme after an unknown name was refused.
C11_SwitchedToLight ==
  /\ op.name = "change_theme" /\ op.reply = "light" /\ ret
  /\ current_theme = "light" /\ stylesheet = <<"#ffffff", "#000000">>
  /\ theme_emits = 1 /\ nops >= 2

\* C12: highlightBlock colours a non-blank block with the external lexer
\* exactly when the library is available and a lexer resolves for the
\* current language, and with the regex rule set of the current language
\* otherwise (generic for an unknown one); a block the lexer raises on gets
\* the regex rule set; a blank block gets no formatting.
C12_HighlightBlockChoosesEngine ==
  [][\A text \in BlockTexts, raises \in BOOLEAN :
       HighlightBlock(text, raises) =>
         LET resolved == /\ pygments_available
                         /\ language_aliases(language) \in LexerNames
             regex == [engine |-> "regex",
                       rules |-> CASE language \in {"python", "py"} -> "python"
                                   [] language \in {"javascript", "js"} -> "javascript"
                                   [] language \in {"cpp", "c++"} -> "cpp"
                                   [] OTHER -> "generic"]
         IN IF \A j \in 1..Len(text) : text[j] = " "
            THEN hl_applied' = [engine |-> "none", rules |-> "none"]
            ELSE IF resolved /\ ~raises
            THEN hl_applied' = [engine |-> "pygments",
                                rules |-> language_aliases(language)]
            ELSE hl_applied' = regex]_vars

\* With the library available, a block was highlighted by regex rules
\* because no lexer resolves for the language set last.
C12_RegexForUnresolvedLanguage ==
  /\ op.name = "highlight_block" /\ op.reply = "code"
  /\ pygments_available /\ language = "nolang"
  /\ hl_applied = [engine |-> "regex", rules |-> "generic"]

\* C13: after set_color_scheme('light') the formats are the light palette
\* and after set_color_scheme('dark') the dark palette, with or without the
\* lexer library, and the token mapping refers to the same palette.
C13_ColorSchemeSetsPalette ==
  (op.name = "set_color_scheme" /\ op.reply \in {"dark", "light"}) =>
    LET palette == IF op.reply = "light" THEN LightFormats ELSE DarkFormats IN
      /\ formats = palette
      /\ pygments_available => token_formats = palette

\* C14: a path whose extension is in the test's table, in any letter case,
\* is detected as the table's language; a path with an unknown extension
\* or none is detected as 'text'.
C14_DetectsLanguageByExtension ==
  op.name = "detect_language" =>
    /\ \A r \in test_extensions, stem \in Stems \ {<<>>} :
         detect_path \in {stem \o r.ext, stem \o seq_upper(r.ext)}
           => language = r.lang
    /\ \A stem \in Stems \ {<<>>}, e \in UnknownExts \ {<<>>} :
         detect_path = stem \o e => language = "text"
    /\ detect_path = <<"t">> => language = "text"

\* A path with an extension in capitals under a directory with a dot was
\* detected as rust.
C14_DetectedUpperCaseRust ==
  /\ op.name = "detect_language"
  /\ detect_path = <<"d", ".", "p", "y", "/", "t", ".", "R", "S">>
  /\ language = "rust"

\* C15: when the main window closes, its window state is written to the
\* application settings store.
C15_CloseStoresWindowState ==
  [][\A reply \in Replies :
       (CloseEvent(reply) /\ window' = "closed")
         => settings_window_state' = window_state]_vars

\* C16: the tab manager's maps mirror the tab bar: editors and file_paths
\* have exactly the keys 0..count()-1, editors[i] is the editor shown in
\* tab i and file_paths[i] is that editor's file path.
C16_MapsMirrorTabBar ==
  /\ Len(editors) = Len(tabs)
  /\ Len(file_paths) = Len(tabs)
  /\ \A i \in 0..(Len(tabs) - 1) :
       /\ DictHas(editors, i) /\ DictGet(editors, i, NoEditor) = widget(i)
       /\ DictHas(file_paths, i)
       /\ DictGet(file_paths, i, None) = ed[widget(i)].file_path

\* C17: the editor last announced through current_editor_changed is the
\* editor of the current tab, and None exactly when no tab remains.
C17_AnnouncedIsCurrentEditor ==
  announced = IF Len(tabs) = 0 THEN NoEditor ELSE widget(cur)

\* C18: in the search dialog current_match_index is -1 exactly when
\* current_matches is empty, and otherwise 0 <= current_match_index <
\* len(current_matches).
C18_MatchIndexInRange ==
  IF current_matches = <<>> THEN current_match_index = -1
  ELSE current_match_index >= 0 /\ current_match_index < Len(current_matches)

\* C19: with n matches found and the search text and options unchanged,
\* Find Next moves the current match from i to i+1 and from n-1 to 0 only
\* when the user confirms (otherwise it stays); Find Previous moves from i
\* to i-1 and from 0 to n-1 only when the user confirms; the matches are
\* kept, in document order.
C19_FindNextAndPreviousCycle ==
  [][(/\ find_input # <<>>
      /\ find_input = last_search_text
      /\ current_matches # <<>>)
       => LET n == Len(current_matches)
              i == current_match_index
          IN /\ \A j \in 1..(n - 1) :
                  current_matches[j][1] < current_matches[j + 1][1]
             /\ op'.name = "find_next"
                  => /\ current_matches' = current_matches
                     /\ current_match_index' =
                          IF i < n - 1 THEN i + 1
                          ELSE IF op'.reply = "Yes" THEN 0 ELSE n - 1
             /\ op'.name = "find_previous"
                  => /\ current_matches' = current_matches
                     /\ current_match_index' =
                          IF i > 0 THEN i - 1
                          ELSE IF op'.reply = "Yes" THEN n - 1 ELSE 0]_vars

\* Find Next asked at the last of several matches, the user confirmed, and
\* the first match is current again.
C19_WrappedToFirstMatch ==
  /\ op.name = "find_next"
  /\ op.reply = "Yes"
  /\ Len(current_matches) >= 2
  /\ current_match_index = 0

\* C20: for the same document, search text and options, the number of
\* matches Find All reports is the number of replacements Replace All
\* performs and reports.
C20_FindAllCountIsReplaceAllCount ==
  (op.name = "find_all" /\ find_input # <<>>)
    => /\ dialog_alive
       /\ stats_label.kind \in {"found", "not_found"}
       /\ stats_label.n = replace_all(doc, replace_all_args(Dialog)).count

\* The search state after _on_search_text_changed or _on_options_changed:
\* no search done.
NoSearchDone ==
  /\ current_matches = <<>>
  /\ current_match_index = -1
  /\ last_search_text = <<>>

\* Editing the search text or toggling an option resets the search state
\* and leaves the document unchanged.
C21_EditOrToggleResets ==
  [][op'.name \in {"search_text", "option"} => (NoSearchDone' /\ doc' = doc)]_vars

\* C21: editing the search text or toggling a search option resets the
\* search state to "no search done" and leaves the document unchanged, and
\* the Find Next or Find Previous that follows recomputes all matches of
\* the search text before it moves.
C21_EditOrToggleResetsThenFindRecomputes ==
  [][/\ op'.name \in {"search_text", "option"} => (NoSearchDone' /\ doc' = doc)
     /\ (/\ op.name \in {"search_text", "option"}
         /\ op'.name \in {"find_next", "find_previous"}
         /\ find_input # <<>>)
          => /\ dialog_alive'
             /\ last_search_text' = find_input
             /\ current_matches' = find_all_matches(Dialog, find_input).matches
             /\ doc' = doc]_vars

\* Every edit-menu action and every edit button of the toolbar is disabled.
EditActionsDisabled ==
  /\ \A a \in DOMAIN menu_actions : ~menu_actions[a]
  /\ \A b \in DOMAIN toolbar_buttons : ~toolbar_buttons[b]

\* C22: whenever no tab is open, the undo, redo, cut, copy and paste menu
\* actions and toolbar buttons are all disabled.
C22_NoTabDisablesEditActions ==
  Len(tabs) = 0 => EditActionsDisabled

\* The same statement for every action and button but paste.
C22_AllButPasteDisabled ==
  Len(tabs) = 0
    => /\ \A a \in DOMAIN menu_actions \ {"paste"} : ~menu_actions[a]
       /\ \A b \in DOMAIN toolbar_buttons \ {"paste"} : ~toolbar_buttons[b]

\* The handler reported failure and left every editor (text, file path and
\* modified flag) and the tab manager's maps as they were.
SaveFailedCleanly ==
  /\ ret' = FALSE
  /\ ed' = ed
  /\ UNCHANGED <<tabs, cur, editors, file_paths>>

\* C23: when writing the file fails during save() or save_as(p), the call
\* reports failure, the document's modified flag, the editor's file path
\* and the tab manager's path for the tab stay as they were; a file path
\* changes only to a path the content was written to.
C23_FailedWriteKeepsPathAndModified ==
  [][/\ \A dlg \in Paths \cup {None} :
          (op'.name = "save_file" /\ SaveFile(dlg, FALSE)) => SaveFailedCleanly
     /\ \A dlg \in Paths \cup {None} :
          (op'.name = "save_file_as" /\ SaveFileAs(dlg, FALSE)) => SaveFailedCleanly
     /\ \A i \in 0..(MaxTabs - 1), d \in Paths \cup {None} :
          (op'.reply = "Save" /\ CloseTab(i, "Save", d, FALSE)) => SaveFailedCleanly
     /\ \A content \in TemplateTexts, p \in Paths :
          (op'.name = "new_file" /\ NewFile(TRUE, content, p, FALSE))
            => LET n == new_tab(State, None, content)
                   before == set_file_path(n.S, get_current_editor(n.S), p)
               IN /\ ret' = FALSE
                  /\ ed' = before.ed
                  /\ file_paths' = before.file_paths
     /\ \A e \in EditorIds :
          (/\ op'.name \in {"save_file", "save_file_as", "close_tab"}
           /\ ed'[e].file_path # ed[e].file_path
           /\ ed'[e].file_path # None)
            => /\ disk'[ed'[e].file_path] = File(Utf8Encode(ed[e].text))
               /\ ~ed'[e].modified]_vars

\* A save of a modified document that has a file path failed: the document
\* is still modified and still has its path.
C23_SaveFailedStillModified ==
  /\ op.name = "save_file" /\ ~ret
  /\ get_current_editor(State) # NoEditor
  /\ ed[get_current_editor(State)].file_path # None
  /\ ed[get_current_editor(State)].modified

====
